---- MODULE Spec2Model ----
(***************************************************************************)
(* GreenVerse backend: the REST handlers of routes/orders.js,              *)
(* routes/production.js (production and products routers), routes/auth and *)
(* routes/clusters (src/unnamed/part_001) over the relational store of     *)
(* database/*.sql.  Every handler is a sequence of store calls; a request  *)
(* suspends at each `await`, so one action below is one store call         *)
(* together with the synchronous code that follows it up to the next call. *)
(***************************************************************************)
EXTENDS Integers, Sequences, FiniteSets, Bags, TLC

VARIABLES
  now,          \* the server clock, in days
  users,        \* table users
  clusters,     \* table clusters
  products,     \* table products: id -> [price, stock]
  profiles,     \* table client_profiles
  orders,       \* table orders
  order_items,  \* table order_items
  production,   \* table production (a bag of rows: equal rows differ only by id)
  materials,    \* table materials
  attendance,   \* table attendance
  employees,    \* table employees
  nextId,       \* the next generated row id (uuid_generate_v4)
  req,          \* the requests in flight: slot -> the handler's locals and position
  session,      \* the last response of POST /api/auth/login
  lastResp      \* the last response of a single-call GET handler

vars == <<now, users, clusters, products, profiles, orders, order_items,
          production, materials, attendance, employees, nextId, req, session,
          lastResp>>

store == <<users, clusters, products, profiles, orders, order_items, production,
           materials, attendance, employees>>

----------------------------------------------------------------------------
(* Bounds of the model *)

MaxStock == 2
MaxLines == 2
MaxDay == 8
MaxProdQty == 1
MaxProdRows == 2
MaxProdDay == 1
MaxId == 6
MaxRecords == 2
MaxAttId == 44
FirstAttendanceId == 41

TokenDays == 7
MinPassword == 6

Reqs == {"r1", "r2"}

----------------------------------------------------------------------------
(* Values *)

Null == [null |-> TRUE]

NoId == ""

Products == {"plate", "bowl"}
UnknownProduct == "ghost"

ProfileFields == {"phone", "city", "district", "state", "address_line"}

Idle == [kind |-> "idle", pc |-> "idle"]

Busy(r) == req[r].pc \notin {"idle", "done"}

RECURSIVE SumSeq(_)
SumSeq(s) == IF s = <<>> THEN 0 ELSE Head(s) + SumSeq(Tail(s))

(* supabase-js `.single()`: the row when exactly one matches, otherwise no
   data and an error (PGRST116) *)
Single(rows) ==
  IF Cardinality(rows) = 1
    THEN [data |-> CHOOSE x \in rows : TRUE, error |-> FALSE]
    ELSE [data |-> Null, error |-> TRUE]

(* bcrypt.hash; bcrypt.compare(password, h) is h = Hash(password) *)
Hash(password) == <<"bcrypt", password>>

Respond(r, status, error) ==
  [req[r] EXCEPT !.pc = "done", !.status = status, !.error = error]

----------------------------------------------------------------------------
(* Store: tables and their constraints *)

SelectProduct(id) ==
  {[id |-> p, price |-> products[p].price, stock |-> products[p].stock] :
     p \in {q \in DOMAIN products : q = id}}

SelectProfile(user_id) == {p \in profiles : p.user_id = user_id}

----------------------------------------------------------------------------
(* POST /api/orders/cart *)

ProfileIncomplete_NoAddress(profile) ==
  \/ profile = Null
  \/ \E f \in ProfileFields \ {"address_line"} : f \notin profile.filled

ProfileIncomplete(profile) ==
  \/ profile = Null
  \/ \E f \in ProfileFields : f \notin profile.filled

StockCheck_OffByOne(product, quantity) == product.stock < quantity - 1

(* orders.js:159 and orders.js:251, the same test in both handlers *)
InsufficientStock(product, quantity) == product.stock < quantity

LineInvalid(item) ==
  item.product_id = NoId \/ item.quantity = 0 \/ item.quantity <= 0

CartStart(r, user, items) ==
  /\ req[r].pc = "idle"
  /\ req' = [req EXCEPT ![r] =
       IF Len(items) = 0
         THEN [kind |-> "cart", pc |-> "done", user |-> user, items |-> items,
               idx |-> 0, details |-> <<>>, total |-> 0, order |-> 0, k |-> 0,
               status |-> 400, error |-> "CartItemsRequired", pre |-> products]
         ELSE [kind |-> "cart", pc |-> "profile", user |-> user, items |-> items,
               idx |-> 0, details |-> <<>>, total |-> 0, order |-> 0, k |-> 0,
               status |-> 0, error |-> "", pre |-> products]]
  /\ UNCHANGED <<store, now, nextId, session, lastResp>>

CartProfile(r) ==
  /\ req[r].kind = "cart" /\ req[r].pc = "profile"
  /\ LET profile == Single(SelectProfile(req[r].user.id)).data IN
       req' = [req EXCEPT ![r] =
         IF ProfileIncomplete(profile)
           THEN Respond(r, 400, "ProfileIncomplete")
           ELSE [req[r] EXCEPT !.pc = "validate", !.idx = 1]]
  /\ UNCHANGED <<store, now, nextId, session, lastResp>>

CartValidate(r) ==
  /\ req[r].kind = "cart" /\ req[r].pc = "validate"
  /\ LET item == req[r].items[req[r].idx]
         res == Single(SelectProduct(item.product_id))
         product == res.data
     IN req' = [req EXCEPT ![r] =
          IF LineInvalid(item) THEN Respond(r, 400, "InvalidInput")
          ELSE IF res.error \/ product = Null THEN Respond(r, 404, "NotFound")
          ELSE IF InsufficientStock(product, item.quantity)
            THEN Respond(r, 400, "InsufficientStock")
          ELSE [req[r] EXCEPT
                  !.total = @ + product.price * item.quantity,
                  !.details = Append(@,
                     [product_id |-> product.id, quantity |-> item.quantity,
                      unit_price |-> product.price,
                      total_price |-> product.price * item.quantity,
                      current_stock |-> product.stock]),
                  !.idx = @ + 1,
                  !.pc = IF req[r].idx = Len(req[r].items)
                           THEN "insertOrder" ELSE "validate"]]
  /\ UNCHANGED <<store, now, nextId, session, lastResp>>

CartOrderRow_FirstLine(id, user, details, total) ==
  [id |-> id, user_id |-> user.id, product_id |-> details[1].product_id,
   quantity |-> details[1].quantity, amount |-> total, status |-> "Pending"]

CartOrderRow(id, user, details, total) ==
  [id |-> id, user_id |-> user.id, product_id |-> details[1].product_id,
   quantity |-> SumSeq([i \in 1..Len(details) |-> details[i].quantity]),
   amount |-> total, status |-> "Pending"]

(* orders.user_id and orders.product_id are foreign keys *)
OrdersInsertOk(row) ==
  /\ row.product_id \in DOMAIN products
  /\ \E u \in users : u.id = row.user_id

CartInsertOrder(r) ==
  /\ req[r].kind = "cart" /\ req[r].pc = "insertOrder"
  /\ LET row == CartOrderRow(nextId, req[r].user, req[r].details, req[r].total)
     IN IF OrdersInsertOk(row)
          THEN /\ orders' = orders \cup {row}
               /\ nextId' = nextId + 1
               /\ req' = [req EXCEPT ![r].order = nextId, ![r].pc = "insertItems"]
          ELSE /\ UNCHANGED <<orders, nextId>>
               /\ req' = [req EXCEPT ![r] = Respond(r, 500, "Internal")]
  /\ UNCHANGED <<users, clusters, products, profiles, order_items, production,
                 materials, attendance, employees, now, session, lastResp>>

CartItemRows_FirstOnly(order_id, details) ==
  {[order_id |-> order_id, line |-> 1, product_id |-> details[1].product_id,
    quantity |-> details[1].quantity, unit_price |-> details[1].unit_price,
    total_price |-> details[1].total_price]}

CartItemRows(order_id, details) ==
  {[order_id |-> order_id, line |-> i, product_id |-> details[i].product_id,
    quantity |-> details[i].quantity, unit_price |-> details[i].unit_price,
    total_price |-> details[i].total_price] : i \in 1..Len(details)}

OrderItemsInsertOk_Unchecked(rows) == TRUE

(* order_items.order_id and order_items.product_id are foreign keys, and
   quantity is CHECKed positive; the rows are inserted by one statement *)
OrderItemsInsertOk(rows) ==
  \A row \in rows :
    /\ \E o \in orders : o.id = row.order_id
    /\ row.product_id \in DOMAIN products
    /\ row.quantity > 0

CartInsertItems(r) ==
  /\ req[r].kind = "cart" /\ req[r].pc = "insertItems"
  /\ IF OrderItemsInsertOk(CartItemRows(req[r].order, req[r].details))
       THEN /\ order_items' = order_items \cup CartItemRows(req[r].order, req[r].details)
            /\ req' = [req EXCEPT ![r].k = 1, ![r].pc = "updateStock"]
       ELSE /\ order_items' = order_items
            /\ req' = [req EXCEPT ![r] = Respond(r, 500, "Internal")]
  /\ UNCHANGED <<users, clusters, products, profiles, orders, production,
                 materials, attendance, employees, now, nextId, session, lastResp>>

CartNewStock_NoDecrement(item) == item.current_stock

CartNewStock(item) == item.current_stock - item.quantity

CartUpdateStock(r) ==
  /\ req[r].kind = "cart" /\ req[r].pc = "updateStock"
  /\ LET item == req[r].details[req[r].k] IN
       products' = [products EXCEPT ![item.product_id].stock = CartNewStock(item)]
  /\ req' = [req EXCEPT ![r] =
       IF req[r].k = Len(req[r].details)
         THEN [req[r] EXCEPT !.pc = "done", !.status = 201]
         ELSE [req[r] EXCEPT !.k = @ + 1]]
  /\ UNCHANGED <<users, clusters, profiles, orders, order_items, production,
                 materials, attendance, employees, now, nextId, session, lastResp>>

----------------------------------------------------------------------------
(* POST /api/orders (single product, kept for older clients) *)

OrderStart(r, user, product_id, quantity) ==
  /\ req[r].pc = "idle"
  /\ req' = [req EXCEPT ![r] =
       [kind |-> "order", user |-> user, product_id |-> product_id,
        quantity |-> quantity, product |-> Null, order |-> 0, pre |-> products,
        pc |-> IF product_id = NoId \/ quantity = 0 THEN "done" ELSE "select",
        status |-> IF product_id = NoId \/ quantity = 0 THEN 400 ELSE 0,
        error |-> IF product_id = NoId \/ quantity = 0 THEN "InvalidInput" ELSE ""]]
  /\ UNCHANGED <<store, now, nextId, session, lastResp>>

OrderSelect(r) ==
  /\ req[r].kind = "order" /\ req[r].pc = "select"
  /\ LET res == Single(SelectProduct(req[r].product_id))
         product == res.data
     IN req' = [req EXCEPT ![r] =
          IF res.error \/ product = Null THEN Respond(r, 404, "NotFound")
          ELSE IF InsufficientStock(product, req[r].quantity)
            THEN Respond(r, 400, "InsufficientStock")
          ELSE [req[r] EXCEPT !.product = product, !.pc = "insert"]]
  /\ UNCHANGED <<store, now, nextId, session, lastResp>>

OrderRow(id, user, product_id, quantity, product) ==
  [id |-> id, user_id |-> user.id, product_id |-> product_id,
   quantity |-> quantity, amount |-> product.price * quantity,
   status |-> "Pending"]

OrderInsert(r) ==
  /\ req[r].kind = "order" /\ req[r].pc = "insert"
  /\ orders' = orders \cup
       {OrderRow(nextId, req[r].user, req[r].product_id, req[r].quantity,
                 req[r].product)}
  /\ nextId' = nextId + 1
  /\ req' = [req EXCEPT ![r].order = nextId, ![r].pc = "update"]
  /\ UNCHANGED <<users, clusters, products, profiles, order_items, production,
                 materials, attendance, employees, now, session, lastResp>>

OrderNewStock(product, quantity) == product.stock - quantity

OrderUpdateStock(r) ==
  /\ req[r].kind = "order" /\ req[r].pc = "update"
  /\ products' = [products EXCEPT ![req[r].product_id].stock =
                    OrderNewStock(req[r].product, req[r].quantity)]
  /\ req' = [req EXCEPT ![r].pc = "done", ![r].status = 201]
  /\ UNCHANGED <<users, clusters, profiles, orders, order_items, production,
                 materials, attendance, employees, now, nextId, session, lastResp>>

----------------------------------------------------------------------------
(* POST /api/production and updateClusterUtilization *)

DefaultCapacity == 1000

SelectCluster(id) == {c \in clusters : c.id = id}

TodayProduction_AnyDate(cluster_id, today) ==
  [row \in {x \in BagToSet(production) : x.cluster_id = cluster_id}
     |-> production[row]]

TodayProduction(cluster_id, today) ==
  [row \in {x \in BagToSet(production) :
              x.cluster_id = cluster_id /\ x.date = today}
     |-> production[row]]

RECURSIVE BagQuantity(_)
BagQuantity(rows) ==
  IF DOMAIN rows = {} THEN 0
  ELSE LET row == CHOOSE x \in DOMAIN rows : TRUE IN
         row.quantity * rows[row]
           + BagQuantity([x \in DOMAIN rows \ {row} |-> rows[x]])

(* Math.round(x) is floor(x + 0.5); here x = num / den with den > 0 *)
Round(num, den) == (2 * num + den) \div (2 * den)

Min(a, b) == IF a < b THEN a ELSE b

Utilization_NoClamp(todayTotal, dailyCapacity) ==
  Round(todayTotal * 100, dailyCapacity)

Utilization(todayTotal, dailyCapacity) ==
  Min(Round(todayTotal * 100, dailyCapacity), 100)

(* parseInt drops the fraction of its argument, towards zero.  The quantity
   of a production request is counted in halves (3 stands for 1.5), the
   quantity of a stored row and the stock of a product in units. *)
ParseInt(quantity) ==
  IF quantity >= 0 THEN quantity \div 2 ELSE -((-quantity) \div 2)

ProdStart(r, user, product_id, quantity, date) ==
  /\ req[r].pc = "idle"
  /\ req' = [req EXCEPT ![r] =
       [kind |-> "production", user |-> user, product_id |-> product_id,
        quantity |-> quantity, date |-> date, product |-> Null,
        capacity |-> 0, today |-> 0, total |-> 0,
        pc |-> IF product_id = NoId \/ quantity = 0 \/ user.cluster_id = 0
                 THEN "done" ELSE "insert",
        status |-> IF product_id = NoId \/ quantity = 0 \/ user.cluster_id = 0
                     THEN 400 ELSE 0,
        error |-> IF product_id = NoId \/ quantity = 0 THEN "InvalidInput"
                  ELSE IF user.cluster_id = 0 THEN "NoCluster" ELSE ""]]
  /\ UNCHANGED <<store, now, nextId, session, lastResp>>

(* production.cluster_id and production.product_id are foreign keys *)
ProductionInsertOk(row) ==
  /\ \E c \in clusters : c.id = row.cluster_id
  /\ row.product_id \in DOMAIN products

ProdInsert(r) ==
  /\ req[r].kind = "production" /\ req[r].pc = "insert"
  /\ LET row == [cluster_id |-> req[r].user.cluster_id,
                 product_id |-> req[r].product_id,
                 quantity |-> ParseInt(req[r].quantity), date |-> req[r].date]
     IN IF ProductionInsertOk(row)
          THEN /\ production' = production (+) SetToBag({row})
               /\ req' = [req EXCEPT ![r].pc = "selectProduct"]
          ELSE /\ production' = production
               /\ req' = [req EXCEPT ![r] = Respond(r, 500, "Internal")]
  /\ UNCHANGED <<users, clusters, products, profiles, orders, order_items,
                 materials, attendance, employees, now, nextId, session, lastResp>>

ProdSelectProduct(r) ==
  /\ req[r].kind = "production" /\ req[r].pc = "selectProduct"
  /\ LET product == Single(SelectProduct(req[r].product_id)).data IN
       req' = [req EXCEPT ![r] =
         IF product = Null
           THEN [req[r] EXCEPT !.pc = "readCapacity"]
           ELSE [req[r] EXCEPT !.product = product, !.pc = "updateStock"]]
  /\ UNCHANGED <<store, now, nextId, session, lastResp>>

ProdNewStock_Overwrite(product, quantity) == ParseInt(quantity)

ProdNewStock(product, quantity) == product.stock + ParseInt(quantity)

ProdUpdateStock(r) ==
  /\ req[r].kind = "production" /\ req[r].pc = "updateStock"
  /\ products' = [products EXCEPT ![req[r].product_id].stock =
                    ProdNewStock(req[r].product, req[r].quantity)]
  /\ req' = [req EXCEPT ![r].pc = "readCapacity"]
  /\ UNCHANGED <<users, clusters, profiles, orders, order_items, production,
                 materials, attendance, employees, now, nextId, session, lastResp>>

DailyCapacity(cluster) ==
  IF cluster.capacity = 0 THEN DefaultCapacity ELSE cluster.capacity

UtilReadCapacity(r) ==
  /\ req[r].kind = "production" /\ req[r].pc = "readCapacity"
  /\ LET cluster == Single(SelectCluster(req[r].user.cluster_id)).data IN
       req' = [req EXCEPT ![r] =
         IF cluster = Null
           THEN [req[r] EXCEPT !.pc = "done", !.status = 201]
           ELSE [req[r] EXCEPT !.capacity = DailyCapacity(cluster),
                               !.today = now, !.pc = "readToday"]]
  /\ UNCHANGED <<store, now, nextId, session, lastResp>>

UtilReadToday(r) ==
  /\ req[r].kind = "production" /\ req[r].pc = "readToday"
  /\ req' = [req EXCEPT
       ![r].total = BagQuantity(TodayProduction(req[r].user.cluster_id, req[r].today)),
       ![r].pc = "writeUtilization"]
  /\ UNCHANGED <<store, now, nextId, session, lastResp>>

UtilWrite(r) ==
  /\ req[r].kind = "production" /\ req[r].pc = "writeUtilization"
  /\ clusters' =
       {IF c.id = req[r].user.cluster_id
          THEN [c EXCEPT !.utilization = Utilization(req[r].total, req[r].capacity)]
          ELSE c : c \in clusters}
  /\ req' = [req EXCEPT ![r].pc = "done", ![r].status = 201]
  /\ UNCHANGED <<users, products, profiles, orders, order_items, production,
                 materials, attendance, employees, now, nextId, session, lastResp>>

(* the response has been delivered; the slot serves the next request *)
Finish(r) ==
  /\ req[r].pc = "done"
  /\ req' = [req EXCEPT ![r] = Idle]
  /\ UNCHANGED <<store, now, nextId, session, lastResp>>

(* a day passes *)
Tick(lastDay) ==
  /\ now < lastDay
  /\ now' = now + 1
  /\ UNCHANGED <<store, nextId, req, session, lastResp>>

----------------------------------------------------------------------------
(* GET /api/clusters and GET /api/clusters/:id: the utilization shown is
   computed at read time.  The employee count of each cluster is read from a
   table that is not modelled. *)

RecentLimit == 10

ClusterProduction(cluster_id) ==
  [row \in {x \in BagToSet(production) : x.cluster_id = cluster_id}
     |-> production[row]]

(* .order('date', descending).limit(10): the rows are ordered by date only, so
   any choice among rows of the same date can be returned *)
RecentProduction(cluster_id) ==
  LET all == ClusterProduction(cluster_id) IN
    {sel \in SubBag(all) :
       /\ BagCardinality(sel) = Min(BagCardinality(all), RecentLimit)
       /\ \A x \in BagToSet(sel), y \in BagToSet(all (-) sel) : x.date >= y.date}

(* recentProduction[0].date *)
MostRecentDate(sel) ==
  CHOOSE d \in {x.date : x \in BagToSet(sel)} :
    \A x \in BagToSet(sel) : d >= x.date

(* the rows of the most recent date among those returned, summed; the total
   read before stays when nothing was returned *)
RecentTotal(sel, todayTotal) ==
  IF BagToSet(sel) = {} THEN todayTotal
  ELSE BagQuantity([row \in {x \in BagToSet(sel) : x.date = MostRecentDate(sel)}
                      |-> sel[row]])

ClusterGetRead(r, id) ==
  /\ req[r].pc = "idle"
  /\ LET res == Single(SelectCluster(id)) IN
       req' = [req EXCEPT ![r] =
         [kind |-> "clusterGet", id |-> id, cluster |-> res.data, today |-> 0,
          total |-> 0, utilization |-> 0,
          pc |-> IF res.error THEN "done" ELSE "today",
          status |-> IF res.error THEN 500 ELSE 0,
          error |-> IF res.error THEN "Internal" ELSE ""]]
  /\ UNCHANGED <<store, now, nextId, session, lastResp>>

ClusterGetToday(r) ==
  /\ req[r].kind = "clusterGet" /\ req[r].pc = "today"
  /\ LET todayTotal == BagQuantity(TodayProduction(req[r].id, now)) IN
       req' = [req EXCEPT ![r] =
         IF todayTotal = 0
           THEN [req[r] EXCEPT !.today = now, !.total = todayTotal, !.pc = "recent"]
           ELSE [req[r] EXCEPT
                   !.today = now, !.total = todayTotal,
                   !.utilization = Utilization(todayTotal, DailyCapacity(req[r].cluster)),
                   !.pc = "done", !.status = 200]]
  /\ UNCHANGED <<store, now, nextId, session, lastResp>>

ClusterGetRecent(r) ==
  /\ req[r].kind = "clusterGet" /\ req[r].pc = "recent"
  /\ \E sel \in RecentProduction(req[r].id) :
       LET todayTotal == RecentTotal(sel, req[r].total) IN
         req' = [req EXCEPT ![r] =
           [req[r] EXCEPT
              !.total = todayTotal,
              !.utilization = Utilization(todayTotal, DailyCapacity(req[r].cluster)),
              !.pc = "done", !.status = 200]]
  /\ UNCHANGED <<store, now, nextId, session, lastResp>>

(* the listing computes every cluster's utilization concurrently (Promise.all)
   and answers when the last one is computed *)
ListAnswered(r, views) ==
  [req[r] EXCEPT
     !.views = views,
     !.pc = IF \A c \in DOMAIN views : views[c].pc = "done" THEN "done" ELSE "views",
     !.status = IF \A c \in DOMAIN views : views[c].pc = "done" THEN 200 ELSE 0]

ClustersListRead(r) ==
  /\ req[r].pc = "idle"
  /\ req' = [req EXCEPT ![r] =
       [kind |-> "clusterList", today |-> now,
        views |-> [c \in {x.id : x \in clusters} |->
                     [cluster |-> CHOOSE x \in clusters : x.id = c,
                      pc |-> "today", total |-> 0, utilization |-> 0]],
        pc |-> IF clusters = {} THEN "done" ELSE "views",
        status |-> IF clusters = {} THEN 200 ELSE 0, error |-> ""]]
  /\ UNCHANGED <<store, now, nextId, session, lastResp>>

ClustersListToday(r, c) ==
  /\ req[r].kind = "clusterList" /\ req[r].pc = "views"
  /\ c \in DOMAIN req[r].views /\ req[r].views[c].pc = "today"
  /\ LET view == req[r].views[c]
         todayTotal == BagQuantity(TodayProduction(c, req[r].today))
     IN req' = [req EXCEPT ![r] = ListAnswered(r,
          [req[r].views EXCEPT ![c] =
             IF todayTotal = 0
               THEN [view EXCEPT !.total = todayTotal, !.pc = "recent"]
               ELSE [view EXCEPT
                       !.total = todayTotal,
                       !.utilization = Utilization(todayTotal, DailyCapacity(view.cluster)),
                       !.pc = "done"]])]
  /\ UNCHANGED <<store, now, nextId, session, lastResp>>

ClustersListRecent(r, c) ==
  /\ req[r].kind = "clusterList" /\ req[r].pc = "views"
  /\ c \in DOMAIN req[r].views /\ req[r].views[c].pc = "recent"
  /\ \E sel \in RecentProduction(c) :
       LET view == req[r].views[c]
           todayTotal == RecentTotal(sel, view.total)
       IN req' = [req EXCEPT ![r] = ListAnswered(r,
            [req[r].views EXCEPT ![c] =
               [view EXCEPT
                  !.total = todayTotal,
                  !.utilization = Utilization(todayTotal, DailyCapacity(view.cluster)),
                  !.pc = "done"]])]
  /\ UNCHANGED <<store, now, nextId, session, lastResp>>

----------------------------------------------------------------------------
(* Tokens *)

(* jwt.sign with expiresIn '7d'; a null cluster_id is 0 *)
GenerateToken_NoExpiry(user, iat) ==
  [id |-> user.id, email |-> user.email, role |-> user.role,
   cluster_id |-> user.cluster_id, iat |-> iat, exp |-> iat + TokenDays + MaxDay]

GenerateToken(user, iat) ==
  [id |-> user.id, email |-> user.email, role |-> user.role,
   cluster_id |-> user.cluster_id, iat |-> iat, exp |-> iat + TokenDays]

NoToken == [id |-> 0]

(* jwt.verify: a token is expired from its exp instant on *)
Verify(token, t) == token # NoToken /\ t < token.exp

----------------------------------------------------------------------------
(* Table users: constraints of the schema *)

SelectUserByEmail(email) == {u \in users : u.email = email}

UserRoles == {"admin", "client", "cluster"}

UsersInsertOk_NoUnique(row) ==
  /\ row.role \in UserRoles
  /\ row.cluster_id = 0 \/ \E c \in clusters : c.id = row.cluster_id

(* email UNIQUE, role CHECK, cluster_id REFERENCES clusters(id) *)
UsersInsertOk(row) ==
  /\ \A u \in users : u.email # row.email
  /\ row.role \in UserRoles
  /\ row.cluster_id = 0 \/ \E c \in clusters : c.id = row.cluster_id

----------------------------------------------------------------------------
(* POST /api/auth/signup *)

SignupInvalid(email, password, name) ==
  \/ email = "" \/ password = "" \/ name = ""
  \/ Len(password) < MinPassword

SignupStart(r, email, password, name, role) ==
  /\ req[r].pc = "idle"
  /\ req' = [req EXCEPT ![r] =
       [kind |-> "signup", email |-> email, password |-> password,
        role |-> role, pre |-> users, created |-> 0, token |-> NoToken,
        pc |-> IF SignupInvalid(email, password, name) THEN "done" ELSE "checkEmail",
        status |-> IF SignupInvalid(email, password, name) THEN 400 ELSE 0,
        error |-> IF SignupInvalid(email, password, name) THEN "InvalidInput" ELSE ""]]
  /\ UNCHANGED <<store, now, nextId, session, lastResp>>

SignupCheckEmail(r) ==
  /\ req[r].kind = "signup" /\ req[r].pc = "checkEmail"
  /\ req' = [req EXCEPT ![r] =
       IF Single(SelectUserByEmail(req[r].email)).data # Null
         THEN Respond(r, 400, "Conflict")
         ELSE [req[r] EXCEPT !.pc = "insert"]]
  /\ UNCHANGED <<store, now, nextId, session, lastResp>>

SignupRow(id, email, password, role) ==
  [id |-> id, email |-> email, password_hash |-> Hash(password),
   role |-> role, cluster_id |-> 0]

SignupInsert(r) ==
  /\ req[r].kind = "signup" /\ req[r].pc = "insert"
  /\ LET newUser == SignupRow(nextId, req[r].email, req[r].password, req[r].role)
     IN IF UsersInsertOk(newUser)
          THEN /\ users' = users \cup {newUser}
               /\ nextId' = nextId + 1
               /\ req' = [req EXCEPT ![r].pc = "done", ![r].status = 201,
                                     ![r].created = newUser.id,
                                     ![r].token = GenerateToken(newUser, now)]
          ELSE /\ UNCHANGED <<users, nextId>>
               /\ req' = [req EXCEPT ![r] = Respond(r, 500, "Internal")]
  /\ UNCHANGED <<clusters, products, profiles, orders, order_items, production,
                 materials, attendance, employees, now, session, lastResp>>

----------------------------------------------------------------------------
(* POST /api/auth/login *)

LoginStart(r, email, password) ==
  /\ req[r].pc = "idle"
  /\ req' = [req EXCEPT ![r] =
       [kind |-> "login", email |-> email, password |-> password,
        user |-> Null, token |-> NoToken,
        pc |-> IF email = "" \/ password = "" THEN "done" ELSE "select",
        status |-> IF email = "" \/ password = "" THEN 400 ELSE 0,
        error |-> IF email = "" \/ password = "" THEN "InvalidInput" ELSE ""]]
  /\ UNCHANGED <<store, now, nextId, session, lastResp>>

LoginSelect(r) ==
  /\ req[r].kind = "login" /\ req[r].pc = "select"
  /\ LET res == Single(SelectUserByEmail(req[r].email)) IN
       req' = [req EXCEPT ![r] =
         IF res.error \/ res.data = Null
           THEN Respond(r, 401, "Unauthorized")
           ELSE [req[r] EXCEPT !.user = res.data, !.pc = "compare"]]
  /\ UNCHANGED <<store, now, nextId, session, lastResp>>

LoginIssue(r) ==
  /\ req[r].kind = "login" /\ req[r].pc = "compare"
  /\ IF req[r].user.password_hash # Hash(req[r].password)
       THEN /\ req' = [req EXCEPT ![r] = Respond(r, 401, "Unauthorized")]
            /\ session' = session
       ELSE /\ req' = [req EXCEPT ![r].pc = "done", ![r].status = 200,
                                  ![r].token = GenerateToken(req[r].user, now)]
            /\ session' = [op |-> "login", status |-> 200,
                           token |-> GenerateToken(req[r].user, now)]
  /\ UNCHANGED <<store, now, nextId, lastResp>>

----------------------------------------------------------------------------
(* GET /api/auth/me *)

SelectUser(id) == {u \in users : u.id = id}

MeStatus(token, t) ==
  IF token = NoToken THEN 401
  ELSE IF ~Verify(token, t) THEN 401
  ELSE IF Single(SelectUser(token.id)).data = Null THEN 404
  ELSE 200

Me(token) ==
  /\ lastResp' = [op |-> "me", token |-> token, at |-> now,
                  status |-> MeStatus(token, now)]
  /\ UNCHANGED <<store, now, nextId, req, session>>

----------------------------------------------------------------------------
(* POST /api/clusters (admin) *)

ClusterCreateStart(r, email, password, capacity) ==
  /\ req[r].pc = "idle"
  /\ req' = [req EXCEPT ![r] =
       [kind |-> "clusterCreate", email |-> email, password |-> password,
        capacity |-> capacity, pre |-> users, cluster |-> 0, created |-> 0,
        pc |-> IF email = "" \/ password = "" \/ capacity = 0
                 THEN "done" ELSE "checkEmail",
        status |-> IF email = "" \/ password = "" \/ capacity = 0 THEN 400 ELSE 0,
        error |-> IF email = "" \/ password = "" \/ capacity = 0
                    THEN "InvalidInput" ELSE ""]]
  /\ UNCHANGED <<store, now, nextId, session, lastResp>>

ClusterCreateCheckEmail(r) ==
  /\ req[r].kind = "clusterCreate" /\ req[r].pc = "checkEmail"
  /\ req' = [req EXCEPT ![r] =
       IF Single(SelectUserByEmail(req[r].email)).data # Null
         THEN Respond(r, 400, "Conflict")
         ELSE [req[r] EXCEPT !.pc = "insertCluster"]]
  /\ UNCHANGED <<store, now, nextId, session, lastResp>>

ClusterRow(id, capacity) ==
  [id |-> id, capacity |-> capacity, utilization |-> 0, manager_id |-> 0]

ClusterCreateInsertCluster(r) ==
  /\ req[r].kind = "clusterCreate" /\ req[r].pc = "insertCluster"
  /\ clusters' = clusters \cup {ClusterRow(nextId, req[r].capacity)}
  /\ nextId' = nextId + 1
  /\ req' = [req EXCEPT ![r].cluster = nextId, ![r].pc = "insertUser"]
  /\ UNCHANGED <<users, products, profiles, orders, order_items, production,
                 materials, attendance, employees, now, session, lastResp>>

ManagerRow(id, email, password, cluster_id) ==
  [id |-> id, email |-> email, password_hash |-> Hash(password),
   role |-> "cluster", cluster_id |-> cluster_id]

ClusterCreateInsertUser(r) ==
  /\ req[r].kind = "clusterCreate" /\ req[r].pc = "insertUser"
  /\ LET user == ManagerRow(nextId, req[r].email, req[r].password, req[r].cluster)
     IN IF UsersInsertOk(user)
          THEN /\ users' = users \cup {user}
               /\ nextId' = nextId + 1
               /\ req' = [req EXCEPT ![r].created = user.id, ![r].pc = "setManager"]
          ELSE /\ UNCHANGED <<users, nextId>>
               /\ req' = [req EXCEPT ![r].pc = "rollback"]
  /\ UNCHANGED <<clusters, products, profiles, orders, order_items, production,
                 materials, attendance, employees, now, session, lastResp>>

(* employees.cluster_id is ON DELETE CASCADE, and so is
   attendance.employee_id *)
EmployeesWithout(id) == {e \in employees : e.cluster_id # id}

AttendanceWithout(id) ==
  {a \in attendance :
     \A e \in employees : e.id = a.employee_id => e.cluster_id # id}

(* users.cluster_id, production.cluster_id and attendance.cluster_id are
   foreign keys without ON DELETE; they are checked on the rows that the
   cascades leave *)
ClusterDeleteOk(id) ==
  /\ \A u \in users : u.cluster_id # id
  /\ \A row \in BagToSet(production) : row.cluster_id # id
  /\ \A a \in AttendanceWithout(id) : a.cluster_id # id

(* materials.cluster_id is ON DELETE CASCADE *)
MaterialsWithout(id) == {m \in materials : m.cluster_id # id}

ClustersWithout_Kept(id) == clusters

ClustersWithout(id) == {c \in clusters : c.id # id}

(* the result of the rollback delete is not inspected *)
ClusterCreateRollback(r) ==
  /\ req[r].kind = "clusterCreate" /\ req[r].pc = "rollback"
  /\ IF ClusterDeleteOk(req[r].cluster)
       THEN /\ clusters' = ClustersWithout(req[r].cluster)
            /\ materials' = MaterialsWithout(req[r].cluster)
            /\ employees' = EmployeesWithout(req[r].cluster)
            /\ attendance' = AttendanceWithout(req[r].cluster)
       ELSE UNCHANGED <<clusters, materials, employees, attendance>>
  /\ req' = [req EXCEPT ![r] = Respond(r, 500, "Internal")]
  /\ UNCHANGED <<users, products, profiles, orders, order_items, production,
                 now, nextId, session, lastResp>>

(* clusters.manager_id REFERENCES users(id); the result of the update is not
   inspected *)
ClusterCreateSetManager(r) ==
  /\ req[r].kind = "clusterCreate" /\ req[r].pc = "setManager"
  /\ clusters' =
       IF \E u \in users : u.id = req[r].created
         THEN {IF c.id = req[r].cluster
                 THEN [c EXCEPT !.manager_id = req[r].created] ELSE c : c \in clusters}
         ELSE clusters
  /\ req' = [req EXCEPT ![r].pc = "done", ![r].status = 201]
  /\ UNCHANGED <<users, products, profiles, orders, order_items, production,
                 materials, attendance, employees, now, nextId, session, lastResp>>

----------------------------------------------------------------------------
(* PUT /api/clusters/:id (admin) *)

ClusterUpdateStart(r, id, patch) ==
  /\ req[r].pc = "idle"
  /\ req' = [req EXCEPT ![r] =
       [kind |-> "clusterUpdate", id |-> id, patch |-> patch, manager |-> 0,
        pc |-> IF patch.email # "" THEN "readManager" ELSE "updateCluster",
        status |-> 0, error |-> ""]]
  /\ UNCHANGED <<store, now, nextId, session, lastResp>>

ClusterUpdateReadManager(r) ==
  /\ req[r].kind = "clusterUpdate" /\ req[r].pc = "readManager"
  /\ LET cluster == Single(SelectCluster(req[r].id)).data IN
       req' = [req EXCEPT ![r] =
         IF cluster # Null /\ cluster.manager_id # 0
           THEN [req[r] EXCEPT !.manager = cluster.manager_id, !.pc = "updateUser"]
           ELSE [req[r] EXCEPT !.pc = "updateCluster"]]
  /\ UNCHANGED <<store, now, nextId, session, lastResp>>

(* email UNIQUE *)
UsersEmailUpdateOk(id, email) ==
  \A u \in users : u.id # id => u.email # email

ClusterUpdateUser(r) ==
  /\ req[r].kind = "clusterUpdate" /\ req[r].pc = "updateUser"
  /\ IF UsersEmailUpdateOk(req[r].manager, req[r].patch.email)
       THEN /\ users' = {IF u.id = req[r].manager
                           THEN [u EXCEPT !.email = req[r].patch.email]
                           ELSE u : u \in users}
            /\ req' = [req EXCEPT ![r].pc = "updateCluster"]
       ELSE /\ users' = users
            /\ req' = [req EXCEPT ![r] = Respond(r, 500, "Internal")]
  /\ UNCHANGED <<clusters, products, profiles, orders, order_items, production,
                 materials, attendance, employees, now, nextId, session, lastResp>>

(* clusters.manager_id REFERENCES users(id) *)
ClustersUpdateOk(patch) ==
  patch.manager.defined /\ patch.manager.value # 0
    => \E u \in users : u.id = patch.manager.value

(* a utilization sent in the body is stored as sent *)
ClusterPatched(c, patch) ==
  [c EXCEPT !.capacity = patch.capacity,
            !.manager_id = IF patch.manager.defined THEN patch.manager.value ELSE @,
            !.utilization = IF "utilization" \in DOMAIN patch
                              THEN patch.utilization ELSE @]

ClusterUpdateCluster(r) ==
  /\ req[r].kind = "clusterUpdate" /\ req[r].pc = "updateCluster"
  /\ IF ClustersUpdateOk(req[r].patch) /\ SelectCluster(req[r].id) # {}
       THEN /\ clusters' = {IF c.id = req[r].id
                              THEN ClusterPatched(c, req[r].patch) ELSE c : c \in clusters}
            /\ req' = [req EXCEPT ![r].pc = "done", ![r].status = 200]
       ELSE /\ clusters' = clusters
            /\ req' = [req EXCEPT ![r] = Respond(r, 500, "Internal")]
  /\ UNCHANGED <<users, products, profiles, orders, order_items, production,
                 materials, attendance, employees, now, nextId, session, lastResp>>

----------------------------------------------------------------------------
(* DELETE /api/clusters/:id (admin) *)

(* clusters.manager_id and orders.user_id are foreign keys without ON DELETE *)
UserDeleteOk(u) ==
  /\ \A c \in clusters : c.manager_id # u.id
  /\ \A o \in orders : o.user_id # u.id

(* client_profiles.user_id is ON DELETE CASCADE *)
ProfilesWithout(gone) == {p \in profiles : \A u \in gone : p.user_id # u.id}

ClusterDeleteUsers(r, id) ==
  /\ req[r].pc = "idle"
  /\ LET targets == {u \in users : u.cluster_id = id}
         this == [kind |-> "clusterDelete", id |-> id,
                  pre_manager |-> IF SelectCluster(id) = {} THEN 0
                                  ELSE Single(SelectCluster(id)).data.manager_id,
                  pre_clusters |-> clusters,
                  manager |-> 0, pc |-> "readManager", status |-> 0, error |-> ""]
     IN IF \A u \in targets : UserDeleteOk(u)
          THEN /\ users' = users \ targets
               /\ profiles' = ProfilesWithout(targets)
               /\ req' = [req EXCEPT ![r] = this]
          ELSE /\ UNCHANGED <<users, profiles>>
               /\ req' = [req EXCEPT ![r] =
                    [this EXCEPT !.pc = "done", !.status = 500, !.error = "Internal"]]
  /\ UNCHANGED <<clusters, products, orders, order_items, production,
                 materials, attendance, employees, now, nextId, session, lastResp>>

ClusterDeleteReadManager(r) ==
  /\ req[r].kind = "clusterDelete" /\ req[r].pc = "readManager"
  /\ LET cluster == Single(SelectCluster(req[r].id)).data IN
       req' = [req EXCEPT ![r].manager = IF cluster = Null THEN 0 ELSE cluster.manager_id,
                          ![r].pc = "deleteManager"]
  /\ UNCHANGED <<store, now, nextId, session, lastResp>>

(* the result of this delete is not inspected *)
ClusterDeleteManager(r) ==
  /\ req[r].kind = "clusterDelete" /\ req[r].pc = "deleteManager"
  /\ LET targets == {u \in users : u.id = req[r].manager} IN
       IF \A u \in targets : UserDeleteOk(u)
         THEN /\ users' = users \ targets
              /\ profiles' = ProfilesWithout(targets)
         ELSE UNCHANGED <<users, profiles>>
  /\ req' = [req EXCEPT ![r].pc = "deleteCluster"]
  /\ UNCHANGED <<clusters, products, orders, order_items, production,
                 materials, attendance, employees, now, nextId, session, lastResp>>

ClusterDeleteCluster(r) ==
  /\ req[r].kind = "clusterDelete" /\ req[r].pc = "deleteCluster"
  /\ IF ClusterDeleteOk(req[r].id)
       THEN /\ clusters' = {c \in clusters : c.id # req[r].id}
            /\ materials' = MaterialsWithout(req[r].id)
            /\ employees' = EmployeesWithout(req[r].id)
            /\ attendance' = AttendanceWithout(req[r].id)
            /\ req' = [req EXCEPT ![r].pc = "done", ![r].status = 200]
       ELSE /\ UNCHANGED <<clusters, materials, employees, attendance>>
            /\ req' = [req EXCEPT ![r] = Respond(r, 500, "Internal")]
  /\ UNCHANGED <<users, products, profiles, orders, order_items, production,
                 now, nextId, session, lastResp>>

----------------------------------------------------------------------------
(* authenticateToken: the requester is the payload of a valid token *)

Authenticated(token) == Verify(token, now)

ReqUser(token) ==
  [id |-> token.id, role |-> token.role, cluster_id |-> token.cluster_id]

----------------------------------------------------------------------------
(* GET /api/production, GET /api/attendance, GET /api/materials *)

(* the listing is narrowed when the requester has role cluster and a
   cluster_id *)
ClusterFilter(user) == user.role = "cluster" /\ user.cluster_id # 0

ProductionRows(user) ==
  IF ClusterFilter(user)
    THEN [row \in {x \in BagToSet(production) : x.cluster_id = user.cluster_id}
            |-> production[row]]
    ELSE production

AttendanceRows(user) ==
  IF ClusterFilter(user)
    THEN {a \in attendance : a.cluster_id = user.cluster_id}
    ELSE attendance

MaterialRows(user) ==
  IF ClusterFilter(user)
    THEN {m \in materials : m.cluster_id = user.cluster_id}
    ELSE materials

Unauthenticated(op) == [op |-> op, status |-> 401]

ListProduction(token) ==
  /\ lastResp' = IF Authenticated(token)
                   THEN [op |-> "listProduction", status |-> 200,
                         user |-> ReqUser(token),
                         rows |-> BagToSet(ProductionRows(ReqUser(token))),
                         count |-> BagCardinality(ProductionRows(ReqUser(token)))]
                   ELSE Unauthenticated("listProduction")
  /\ UNCHANGED <<store, now, nextId, req, session>>

ListAttendance(token) ==
  /\ lastResp' = IF Authenticated(token)
                   THEN [op |-> "listAttendance", status |-> 200,
                         user |-> ReqUser(token),
                         rows |-> AttendanceRows(ReqUser(token)),
                         count |-> Cardinality(AttendanceRows(ReqUser(token)))]
                   ELSE Unauthenticated("listAttendance")
  /\ UNCHANGED <<store, now, nextId, req, session>>

ListMaterials(token) ==
  /\ lastResp' = IF Authenticated(token)
                   THEN [op |-> "listMaterials", status |-> 200,
                         user |-> ReqUser(token),
                         rows |-> MaterialRows(ReqUser(token)),
                         count |-> Cardinality(MaterialRows(ReqUser(token)))]
                   ELSE Unauthenticated("listMaterials")
  /\ UNCHANGED <<store, now, nextId, req, session>>

----------------------------------------------------------------------------
(* POST, PUT and DELETE /api/materials (role cluster) *)

SelectMaterial(id) == {m \in materials : m.id = id}

(* parseFloat of a quantity sent as a whole number *)
ParseFloat(quantity) == quantity

(* materials.cluster_id REFERENCES clusters(id) *)
MaterialsInsertOk(row) == \E c \in clusters : c.id = row.cluster_id

MaterialCreate(r, user, name, quantity) ==
  /\ req[r].pc = "idle"
  /\ LET this == [kind |-> "materialCreate", user |-> user, id |-> 0,
                  quantity |-> quantity, pre |-> materials,
                  pc |-> "done", status |-> 0, error |-> ""]
         row == [id |-> nextId, cluster_id |-> user.cluster_id,
                 quantity |-> ParseFloat(quantity)]
     IN IF name = "" \/ quantity = 0 \/ user.cluster_id = 0
          THEN /\ req' = [req EXCEPT ![r] =
                    [this EXCEPT !.status = 400, !.error = "InvalidInput"]]
               /\ UNCHANGED <<materials, nextId>>
          ELSE IF MaterialsInsertOk(row)
          THEN /\ materials' = materials \cup {row}
               /\ nextId' = nextId + 1
               /\ req' = [req EXCEPT ![r] = [this EXCEPT !.status = 201, !.id = row.id]]
          ELSE /\ req' = [req EXCEPT ![r] =
                    [this EXCEPT !.status = 500, !.error = "Internal"]]
               /\ UNCHANGED <<materials, nextId>>
  /\ UNCHANGED <<users, clusters, products, profiles, orders, order_items,
                 production, attendance, employees, now, session, lastResp>>

MaterialForeign_Never(existing, user) == FALSE

MaterialForeign(existing, user) == existing.cluster_id # user.cluster_id

(* the ownership read shared by PUT and DELETE *)
MaterialRead(r, kind, user, id, quantity) ==
  /\ req[r].pc = "idle"
  /\ LET res == Single(SelectMaterial(id))
         this == [kind |-> kind, user |-> user, id |-> id, quantity |-> quantity,
                  pre |-> materials, pc |-> "write", status |-> 0, error |-> ""]
     IN req' = [req EXCEPT ![r] =
          IF res.error
            THEN [this EXCEPT !.pc = "done", !.status = 500, !.error = "Internal"]
          ELSE IF MaterialForeign(res.data, user)
            THEN [this EXCEPT !.pc = "done", !.status = 403, !.error = "Forbidden"]
          ELSE this]
  /\ UNCHANGED <<store, now, nextId, session, lastResp>>

MaterialUpdateRead(r, user, id, quantity) ==
  MaterialRead(r, "materialUpdate", user, id, quantity)

MaterialUpdateWrite(r) ==
  /\ req[r].kind = "materialUpdate" /\ req[r].pc = "write"
  /\ IF SelectMaterial(req[r].id) = {}
       THEN /\ materials' = materials
            /\ req' = [req EXCEPT ![r] = Respond(r, 500, "Internal")]
       ELSE /\ materials' = {IF m.id = req[r].id
                                THEN [m EXCEPT !.quantity = ParseFloat(req[r].quantity)]
                                ELSE m : m \in materials}
            /\ req' = [req EXCEPT ![r].pc = "done", ![r].status = 200]
  /\ UNCHANGED <<users, clusters, products, profiles, orders, order_items,
                 production, attendance, employees, now, nextId, session, lastResp>>

MaterialDeleteRead(r, user, id) ==
  MaterialRead(r, "materialDelete", user, id, 0)

MaterialDeleteWrite(r) ==
  /\ req[r].kind = "materialDelete" /\ req[r].pc = "write"
  /\ materials' = {m \in materials : m.id # req[r].id}
  /\ req' = [req EXCEPT ![r].pc = "done", ![r].status = 200]
  /\ UNCHANGED <<users, clusters, products, profiles, orders, order_items,
                 production, attendance, employees, now, nextId, session, lastResp>>

----------------------------------------------------------------------------
(* GET /api/orders and GET /api/orders/:id *)

OrdersOf_Everyone(user) == orders

(* the listing is narrowed to the requester's orders when the role is client *)
OrdersOf(user) ==
  IF user.role = "client" THEN {o \in orders : o.user_id = user.id} ELSE orders

SelectOrder(id) == {o \in orders : o.id = id}

ItemsOf(order) == {i \in order_items : i.order_id = order.id}

ProfileOf(order) == Single(SelectProfile(order.user_id)).data

WithItems(order) ==
  [order |-> order, items |-> ItemsOf(order), profile |-> ProfileOf(order)]

OrdersListRead(r, user) ==
  /\ req[r].pc = "idle"
  /\ req' = [req EXCEPT ![r] =
       [kind |-> "ordersList", user |-> user, orders |-> OrdersOf(user),
        result |-> {}, pc |-> "items", status |-> 0, error |-> ""]]
  /\ UNCHANGED <<store, now, nextId, session, lastResp>>

(* the items and the profile of every listed order are fetched *)
OrdersListItems(r) ==
  /\ req[r].kind = "ordersList" /\ req[r].pc = "items"
  /\ req' = [req EXCEPT ![r].result = {WithItems(o) : o \in req[r].orders},
                        ![r].pc = "done", ![r].status = 200]
  /\ UNCHANGED <<store, now, nextId, session, lastResp>>

OrderDenied(order, user) == user.role = "client" /\ order.user_id # user.id

OrderGetRead(r, user, id) ==
  /\ req[r].pc = "idle"
  /\ LET res == Single(SelectOrder(id))
         this == [kind |-> "orderGet", user |-> user, id |-> id, pre |-> orders,
                  order |-> Null, result |-> Null,
                  pc |-> "items", status |-> 0, error |-> ""]
     IN req' = [req EXCEPT ![r] =
          IF res.error
            THEN [this EXCEPT !.pc = "done", !.status = 500, !.error = "Internal"]
          ELSE IF res.data = Null
            THEN [this EXCEPT !.pc = "done", !.status = 404, !.error = "NotFound"]
          ELSE IF OrderDenied(res.data, user)
            THEN [this EXCEPT !.pc = "done", !.status = 403, !.error = "Forbidden"]
          ELSE [this EXCEPT !.order = res.data]]
  /\ UNCHANGED <<store, now, nextId, session, lastResp>>

OrderGetItems(r) ==
  /\ req[r].kind = "orderGet" /\ req[r].pc = "items"
  /\ req' = [req EXCEPT ![r].result = WithItems(req[r].order),
                        ![r].pc = "done", ![r].status = 200]
  /\ UNCHANGED <<store, now, nextId, session, lastResp>>

----------------------------------------------------------------------------
(* PATCH /api/orders/:id/status and DELETE /api/orders/:id (admin) *)

NewStatus_ForwardOnly(order, status) ==
  IF order.status = "Delivered" THEN order.status ELSE status

NewStatus(order, status) == status

UpdateOrderStatus(id, status) ==
  /\ LET before == IF SelectOrder(id) = {} THEN ""
                   ELSE Single(SelectOrder(id)).data.status
         resp(http) == [op |-> "patchStatus", id |-> id, status |-> status,
                        before |-> before, http |-> http]
     IN IF status = ""
          THEN /\ orders' = orders
               /\ lastResp' = resp(400)
          ELSE IF SelectOrder(id) = {}
          THEN /\ orders' = orders
               /\ lastResp' = resp(500)
          ELSE /\ orders' = {IF o.id = id
                               THEN [o EXCEPT !.status = NewStatus(o, status)]
                               ELSE o : o \in orders}
               /\ lastResp' = resp(200)
  /\ UNCHANGED <<users, clusters, products, profiles, order_items, production,
                 materials, attendance, employees, now, nextId, req, session>>

(* order_items.order_id is ON DELETE CASCADE *)
DeleteOrder(id) ==
  /\ orders' = {o \in orders : o.id # id}
  /\ order_items' = {i \in order_items : i.order_id # id}
  /\ lastResp' = [op |-> "deleteOrder", id |-> id, http |-> 200]
  /\ UNCHANGED <<users, clusters, products, profiles, production,
                 materials, attendance, employees, now, nextId, req, session>>

----------------------------------------------------------------------------
(* GET /api/products/:id *)

GetProductStatus(res) ==
  IF res.error THEN 500
  ELSE IF res.data = Null THEN 404
  ELSE 200

GetProduct(id) ==
  /\ lastResp' = [op |-> "getProduct", id |-> id,
                  status |-> GetProductStatus(Single(SelectProduct(id)))]
  /\ UNCHANGED <<store, now, nextId, req, session>>

(* DELETE /api/products/:id; the rows that reference a product (orders,
   order_items, production) have no ON DELETE rule, so they block it *)
ProductReferenced(id) ==
  \/ \E o \in orders : o.product_id = id
  \/ \E i \in order_items : i.product_id = id
  \/ \E row \in BagToSet(production) : row.product_id = id

DeleteProduct(id) ==
  /\ IF ProductReferenced(id)
       THEN /\ products' = products
            /\ lastResp' = [op |-> "deleteProduct", id |-> id, status |-> 500]
       ELSE /\ products' = [p \in DOMAIN products \ {id} |-> products[p]]
            /\ lastResp' = [op |-> "deleteProduct", id |-> id, status |-> 200]
  /\ UNCHANGED <<users, clusters, profiles, orders, order_items, production,
                 materials, attendance, employees, now, nextId, req, session>>

----------------------------------------------------------------------------
(* POST /api/profile (role client); a profile row records which of the five
   address fields are populated *)

ProfileSaveInvalid_PhoneOnly(fields) == "phone" \notin fields

ProfileSaveInvalid(fields) == \E f \in ProfileFields : f \notin fields

ProfileSaveStart(r, user, fields) ==
  /\ req[r].pc = "idle"
  /\ req' = [req EXCEPT ![r] =
       [kind |-> "profileSave", user |-> user, fields |-> fields,
        existing |-> Null, pre |-> profiles,
        pc |-> IF ProfileSaveInvalid(fields) THEN "done" ELSE "check",
        status |-> IF ProfileSaveInvalid(fields) THEN 400 ELSE 0,
        error |-> IF ProfileSaveInvalid(fields) THEN "InvalidInput" ELSE ""]]
  /\ UNCHANGED <<store, now, nextId, session, lastResp>>

ProfileSaveCheck(r) ==
  /\ req[r].kind = "profileSave" /\ req[r].pc = "check"
  /\ req' = [req EXCEPT ![r].existing = Single(SelectProfile(req[r].user.id)).data,
                        ![r].pc = "write"]
  /\ UNCHANGED <<store, now, nextId, session, lastResp>>

(* client_profiles.user_id is UNIQUE and REFERENCES users(id) *)
ProfilesInsertOk(row) ==
  /\ \A p \in profiles : p.user_id # row.user_id
  /\ \E u \in users : u.id = row.user_id

ProfileSaveWrite(r) ==
  /\ req[r].kind = "profileSave" /\ req[r].pc = "write"
  /\ IF req[r].existing # Null
       THEN (* update ... .eq('user_id', req.user.id).select().single() *)
            /\ profiles' = {IF p.user_id = req[r].user.id
                              THEN [p EXCEPT !.filled = req[r].fields] ELSE p :
                            p \in profiles}
            /\ req' = [req EXCEPT ![r] =
                 IF Single(SelectProfile(req[r].user.id)).error
                   THEN Respond(r, 500, "Internal")
                   ELSE [req[r] EXCEPT !.pc = "done", !.status = 200]]
       ELSE LET row == [user_id |-> req[r].user.id, filled |-> req[r].fields] IN
              IF ProfilesInsertOk(row)
                THEN /\ profiles' = profiles \cup {row}
                     /\ req' = [req EXCEPT ![r].pc = "done", ![r].status = 200]
                ELSE /\ profiles' = profiles
                     /\ req' = [req EXCEPT ![r] = Respond(r, 500, "Internal")]
  /\ UNCHANGED <<users, clusters, products, orders, order_items, production,
                 materials, attendance, employees, now, nextId, session, lastResp>>

----------------------------------------------------------------------------
(* Initial states *)

UnitPrice(p) == IF p = "plate" THEN 45 ELSE 35

AdminUser ==
  [id |-> 1, email |-> "admin@greenverse.com", password_hash |-> Hash("admin123"),
   role |-> "admin", cluster_id |-> 0]

ClientUser ==
  [id |-> 2, email |-> "client@greenverse.com", password_hash |-> Hash("secret1"),
   role |-> "client", cluster_id |-> 0]

Catalogs == [Products -> [price : {45, 35}, stock : 0..MaxStock]]

(* a client's profile row: absent, complete, or lacking one field (the columns
   are nullable) *)
ProfileTables ==
  {{}} \cup {{[user_id |-> ClientUser.id, filled |-> ProfileFields]}}
       \cup {{[user_id |-> ClientUser.id, filled |-> ProfileFields \ {f}]} :
               f \in ProfileFields}

NoResp == [op |-> "none", status |-> 0]

InitShop ==
  /\ now = 0
  /\ users = {AdminUser, ClientUser}
  /\ clusters = {}
  /\ products \in {c \in Catalogs : \A p \in Products : c[p].price = UnitPrice(p)}
  /\ profiles \in ProfileTables
  /\ orders = {}
  /\ order_items = {}
  /\ production = EmptyBag
  /\ materials = {}
  /\ attendance = {}
  /\ employees = {}
  /\ nextId = 3
  /\ req = [r \in Reqs |-> Idle]
  /\ session = NoResp
  /\ lastResp = NoResp

----------------------------------------------------------------------------
(* Inputs *)

Clients == {[id |-> ClientUser.id, role |-> "client"]}

Lines ==
  [product_id : Products, quantity : 0..MaxStock]
    \cup {[product_id |-> UnknownProduct, quantity |-> 1],
          [product_id |-> NoId, quantity |-> 1]}

Carts == UNION {[1..n -> Lines] : n \in 0..MaxLines}

ProductIds == Products \cup {UnknownProduct, NoId}

----------------------------------------------------------------------------
(* One checkout at a time: a single request runs from arrival to response *)

NextCheckout ==
  \/ \E user \in Clients, items \in Carts : CartStart("r1", user, items)
  \/ CartProfile("r1")
  \/ CartValidate("r1")
  \/ CartInsertOrder("r1")
  \/ CartInsertItems("r1")
  \/ CartUpdateStock("r1")

SpecCheckout == InitShop /\ [][NextCheckout]_vars

----------------------------------------------------------------------------
(* Concurrent orders: two requests interleave at their store calls *)

InitOrders ==
  /\ InitShop
  /\ profiles = {[user_id |-> ClientUser.id, filled |-> ProfileFields]}

OneLineCarts == {<<l>> : l \in {x \in Lines : x.product_id \in Products /\ x.quantity > 0}}

OrderQtys == {-1} \cup 1..MaxStock

NextOrders ==
  \/ \E r \in Reqs, user \in Clients, items \in OneLineCarts : CartStart(r, user, items)
  \/ \E r \in Reqs : CartProfile(r)
  \/ \E r \in Reqs : CartValidate(r)
  \/ \E r \in Reqs : CartInsertOrder(r)
  \/ \E r \in Reqs : CartInsertItems(r)
  \/ \E r \in Reqs : CartUpdateStock(r)
  \/ \E r \in Reqs, user \in Clients, p \in Products, q \in OrderQtys :
       OrderStart(r, user, p, q)
  \/ \E r \in Reqs : OrderSelect(r)
  \/ \E r \in Reqs : OrderInsert(r)
  \/ \E r \in Reqs : OrderUpdateStock(r)

SpecOrders == InitOrders /\ [][NextOrders]_vars

(* one checkout while the admin deletes products *)
InitCheckoutFailure ==
  /\ InitOrders
  /\ \A p \in Products : products[p].stock = MaxStock

NextCheckoutFailure ==
  \/ \E user \in Clients, items \in Carts : CartStart("r1", user, items)
  \/ CartProfile("r1")
  \/ CartValidate("r1")
  \/ CartInsertOrder("r1")
  \/ CartInsertItems("r1")
  \/ CartUpdateStock("r1")
  \/ \E id \in Products : DeleteProduct(id)

SpecCheckoutFailure == InitCheckoutFailure /\ [][NextCheckoutFailure]_vars

----------------------------------------------------------------------------
(* The public catalogue and its administration *)

NextCatalog ==
  \/ \E id \in Products \cup {UnknownProduct} : GetProduct(id)
  \/ \E id \in Products : DeleteProduct(id)

SpecCatalog == InitShop /\ [][NextCatalog]_vars

----------------------------------------------------------------------------
(* Profile and checkout: the client saves the profile on one connection and
   checks out on the other *)

InitProfiles ==
  /\ InitShop
  /\ \A p \in Products : products[p].stock = MaxStock

(* the sets of fields a save populates: all five, or all but one *)
SavedFields == {ProfileFields} \cup {ProfileFields \ {f} : f \in ProfileFields}

NextProfiles ==
  \/ \E user \in Clients, fields \in SavedFields : ProfileSaveStart("r1", user, fields)
  \/ ProfileSaveCheck("r1")
  \/ ProfileSaveWrite("r1")
  \/ Finish("r1")
  \/ \E user \in Clients, items \in OneLineCarts :
       /\ nextId <= MaxId
       /\ CartStart("r2", user, items)
  \/ CartProfile("r2")
  \/ CartValidate("r2")
  \/ CartInsertOrder("r2")
  \/ CartInsertItems("r2")
  \/ CartUpdateStock("r2")
  \/ Finish("r2")

SpecProfiles == InitProfiles /\ [][NextProfiles]_vars

----------------------------------------------------------------------------
(* Production logged by one cluster manager, one request at a time *)

ManagerA ==
  [id |-> 4, email |-> "a@greenverse.com", password_hash |-> Hash("secret1"),
   role |-> "cluster", cluster_id |-> 3]

ManagerB ==
  [id |-> 6, email |-> "b@greenverse.com", password_hash |-> Hash("secret1"),
   role |-> "cluster", cluster_id |-> 5]

Capacities == {0, 8}

(* two clusters created by the admin, each with its manager; the second has
   logged one unit today *)
InitProduction ==
  /\ now = 0
  /\ users = {AdminUser, ManagerA, ManagerB}
  /\ \E cap \in Capacities :
       clusters = {[id |-> ManagerA.cluster_id, capacity |-> cap,
                    utilization |-> 0, manager_id |-> ManagerA.id],
                   [id |-> ManagerB.cluster_id, capacity |-> 8,
                    utilization |-> Utilization(1, 8), manager_id |-> ManagerB.id]}
  /\ products = [p \in Products |-> [price |-> UnitPrice(p), stock |-> MaxStock]]
  /\ profiles = {}
  /\ orders = {}
  /\ order_items = {}
  /\ production = SetToBag({[cluster_id |-> ManagerB.cluster_id,
                             product_id |-> "plate", quantity |-> 1, date |-> 0]})
  /\ materials = {}
  /\ attendance = {}
  /\ employees = {}
  /\ nextId = 7
  /\ req = [r \in Reqs |-> Idle]
  /\ session = NoResp
  /\ lastResp = NoResp

ClusterTokens ==
  {[id |-> m.id, role |-> m.role, cluster_id |-> m.cluster_id] :
     m \in {ManagerA, ManagerB}}

(* request quantities in halves: -1, 0, 1.5, 600 and the whole numbers up to
   MaxProdQty *)
ProdQtys == {-2, 0, 3, 1200} \cup {2 * q : q \in 1..MaxProdQty}

ProdDates == 0..MaxProdDay

NextProduction ==
  \/ \E user \in ClusterTokens, q \in ProdQtys, d \in ProdDates :
       /\ BagCardinality(production) <= MaxProdRows
       /\ ProdStart("r1", user, "plate", q, d)
  \/ ProdInsert("r1")
  \/ ProdSelectProduct("r1")
  \/ ProdUpdateStock("r1")
  \/ UtilReadCapacity("r1")
  \/ UtilReadToday("r1")
  \/ UtilWrite("r1")
  \/ Finish("r1")
  \/ req["r1"].pc = "idle" /\ Tick(MaxProdDay)

SpecProduction == InitProduction /\ [][NextProduction]_vars

(* two inserts of the same manager, dated today, interleaved *)
SameClusterTokens ==
  {[id |-> ManagerA.id, role |-> ManagerA.role, cluster_id |-> ManagerA.cluster_id]}

NextProductionRace ==
  \E r \in Reqs :
    \/ \E user \in SameClusterTokens, q \in {2, 1200} :
         ProdStart(r, user, "plate", q, now)
    \/ ProdInsert(r)
    \/ ProdSelectProduct(r)
    \/ ProdUpdateStock(r)
    \/ UtilReadCapacity(r)
    \/ UtilReadToday(r)
    \/ UtilWrite(r)

SpecProductionRace == InitProduction /\ [][NextProductionRace]_vars

----------------------------------------------------------------------------
(* Orders and production on the same products: a client's order and a
   manager's production insert, or two of either, interleaved; each
   connection carries one request *)

InitStock ==
  /\ now = 0
  /\ users = {AdminUser, ClientUser, ManagerA}
  /\ clusters = {[id |-> ManagerA.cluster_id, capacity |-> 8, utilization |-> 0,
                  manager_id |-> ManagerA.id]}
  /\ products = [p \in Products |-> [price |-> UnitPrice(p), stock |-> MaxStock]]
  /\ profiles = {[user_id |-> ClientUser.id, filled |-> ProfileFields]}
  /\ orders = {}
  /\ order_items = {}
  /\ production = EmptyBag
  /\ materials = {}
  /\ attendance = {}
  /\ employees = {}
  /\ nextId = 7
  /\ req = [r \in Reqs |-> Idle]
  /\ session = NoResp
  /\ lastResp = NoResp

NextStock ==
  \E r \in Reqs :
    \/ \E user \in Clients, items \in OneLineCarts : CartStart(r, user, items)
    \/ CartProfile(r)
    \/ CartValidate(r)
    \/ CartInsertOrder(r)
    \/ CartInsertItems(r)
    \/ CartUpdateStock(r)
    \/ \E user \in Clients, p \in Products, q \in 1..MaxStock : OrderStart(r, user, p, q)
    \/ OrderSelect(r)
    \/ OrderInsert(r)
    \/ OrderUpdateStock(r)
    \/ \E user \in SameClusterTokens, p \in Products, q \in 1..MaxProdQty :
         ProdStart(r, user, p, 2 * q, now)
    \/ ProdInsert(r)
    \/ ProdSelectProduct(r)
    \/ ProdUpdateStock(r)
    \/ UtilReadCapacity(r)
    \/ UtilReadToday(r)
    \/ UtilWrite(r)

SpecStock == InitStock /\ [][NextStock]_vars

----------------------------------------------------------------------------
(* Accounts: signups and cluster creations, two requests interleaved *)

InitAccounts ==
  /\ now = 0
  /\ users = {AdminUser}
  /\ clusters = {}
  /\ products = [p \in Products |-> [price |-> UnitPrice(p), stock |-> MaxStock]]
  /\ profiles = {}
  /\ orders = {}
  /\ order_items = {}
  /\ production = EmptyBag
  /\ materials = {}
  /\ attendance = {}
  /\ employees = {}
  /\ nextId = 2
  /\ req = [r \in Reqs |-> Idle]
  /\ session = NoResp
  /\ lastResp = NoResp

Emails == {"a@greenverse.com", "b@greenverse.com"}

Passwords == {"", "abc", "secret1"}

SignupRoles == {"client", "cluster"}

NextAccounts ==
  \E r \in Reqs :
    \/ \E email \in Emails, password \in Passwords, role \in SignupRoles :
         SignupStart(r, email, password, "Ann", role)
    \/ SignupCheckEmail(r)
    \/ SignupInsert(r)
    \/ \E email \in Emails, capacity \in Capacities :
         ClusterCreateStart(r, email, "secret1", capacity)
    \/ ClusterCreateCheckEmail(r)
    \/ ClusterCreateInsertCluster(r)
    \/ ClusterCreateInsertUser(r)
    \/ ClusterCreateRollback(r)
    \/ ClusterCreateSetManager(r)

SpecAccounts == InitAccounts /\ [][NextAccounts]_vars

----------------------------------------------------------------------------
(* Cluster administration: signups, cluster creations, updates and deletions,
   one request at a time.  The rollback of a cluster creation is absent: with
   no other request between the email check and the user insert, the insert
   cannot fail. *)

UnknownCluster == 99

ClusterIds == {c.id : c \in clusters} \cup {UnknownCluster}

ClusterPatches ==
  [manager : {[defined |-> FALSE, value |-> 0], [defined |-> TRUE, value |-> 0]},
   capacity : Capacities,
   email : {""} \cup Emails]

NextClusters ==
  \/ \E email \in Emails, password \in {"abc", "secret1"}, role \in SignupRoles :
       nextId < MaxId /\ SignupStart("r1", email, password, "Ann", role)
  \/ SignupCheckEmail("r1")
  \/ SignupInsert("r1")
  \/ \E email \in Emails, capacity \in Capacities :
       nextId < MaxId /\ ClusterCreateStart("r1", email, "secret1", capacity)
  \/ ClusterCreateCheckEmail("r1")
  \/ ClusterCreateInsertCluster("r1")
  \/ ClusterCreateInsertUser("r1")
  \/ ClusterCreateSetManager("r1")
  \/ \E id \in ClusterIds, patch \in ClusterPatches : ClusterUpdateStart("r1", id, patch)
  \/ ClusterUpdateReadManager("r1")
  \/ ClusterUpdateUser("r1")
  \/ ClusterUpdateCluster("r1")
  \/ \E id \in ClusterIds : ClusterDeleteUsers("r1", id)
  \/ ClusterDeleteReadManager("r1")
  \/ ClusterDeleteManager("r1")
  \/ ClusterDeleteCluster("r1")
  \/ Finish("r1")

SpecClusters == InitAccounts /\ [][NextClusters]_vars

----------------------------------------------------------------------------
(* Sessions: logins, token presentation and the passing of days *)

InitSession ==
  /\ now = 0
  /\ users = {AdminUser, ManagerA}
  /\ clusters = {[id |-> ManagerA.cluster_id, capacity |-> 8, utilization |-> 0,
                  manager_id |-> ManagerA.id]}
  /\ products = [p \in Products |-> [price |-> UnitPrice(p), stock |-> MaxStock]]
  /\ profiles = {}
  /\ orders = {}
  /\ order_items = {}
  /\ production = EmptyBag
  /\ materials = {}
  /\ attendance = {}
  /\ employees = {}
  /\ nextId = 5
  /\ req = [r \in Reqs |-> Idle]
  /\ session = NoResp
  /\ lastResp = NoResp

LoginEmails == {"", AdminUser.email, ManagerA.email, "b@greenverse.com"}

LoginPasswords == {"admin123", "secret1"}

PresentedTokens ==
  {NoToken} \cup (IF session.op = "login" THEN {session.token} ELSE {})

NextSession ==
  \/ \E email \in LoginEmails, password \in LoginPasswords :
       LoginStart("r1", email, password)
  \/ LoginSelect("r1")
  \/ LoginIssue("r1")
  \/ Finish("r1")
  \/ \E token \in PresentedTokens : Me(token)
  \/ req["r1"].pc = "idle" /\ Tick(MaxDay)

SpecSession == InitSession /\ [][NextSession]_vars

----------------------------------------------------------------------------
(* production logged and clusters viewed, one request at a time; the second
   cluster has logged one record of one unit, or one more than a view looks
   at, on day 0 *)
LoggedRow ==
  [cluster_id |-> ManagerB.cluster_id, product_id |-> "plate", quantity |-> 1,
   date |-> 0]

InitClusterViews ==
  /\ now = 0
  /\ users = {AdminUser, ManagerA, ManagerB}
  /\ \E cap \in Capacities, n \in {1, RecentLimit + 1} :
       /\ clusters = {[id |-> ManagerA.cluster_id, capacity |-> cap,
                       utilization |-> 0, manager_id |-> ManagerA.id],
                      [id |-> ManagerB.cluster_id, capacity |-> 0,
                       utilization |-> Utilization(n, DefaultCapacity),
                       manager_id |-> ManagerB.id]}
       /\ production = [row \in {LoggedRow} |-> n]
  /\ products = [p \in Products |-> [price |-> UnitPrice(p), stock |-> MaxStock]]
  /\ profiles = {}
  /\ orders = {}
  /\ order_items = {}
  /\ materials = {}
  /\ attendance = {}
  /\ employees = {}
  /\ nextId = 7
  /\ req = [r \in Reqs |-> Idle]
  /\ session = NoResp
  /\ lastResp = NoResp

(* request quantities in halves: 0.5 and 600 *)
ViewQtys == {1, 1200}

NextClusterViews ==
  \/ \E user \in ClusterTokens, q \in ViewQtys, d \in ProdDates :
       /\ BagCardinality(production) - CopiesIn(LoggedRow, production) < MaxProdRows
       /\ ProdStart("r1", user, "plate", q, d)
  \/ ProdInsert("r1")
  \/ ProdSelectProduct("r1")
  \/ ProdUpdateStock("r1")
  \/ UtilReadCapacity("r1")
  \/ UtilReadToday("r1")
  \/ UtilWrite("r1")
  \/ \E id \in ClusterIds : ClusterGetRead("r1", id)
  \/ ClusterGetToday("r1")
  \/ ClusterGetRecent("r1")
  \/ ClustersListRead("r1")
  \/ \E c \in ClusterIds : ClustersListToday("r1", c)
  \/ \E c \in ClusterIds : ClustersListRecent("r1", c)
  \/ Finish("r1")
  \/ req["r1"].pc = "idle" /\ Tick(MaxProdDay)

SpecClusterViews == InitClusterViews /\ [][NextClusterViews]_vars

----------------------------------------------------------------------------
(* Utilization: the admin updates clusters and the managers log production,
   one request at a time *)

UtilizationPatches ==
  {[manager |-> [defined |-> FALSE, value |-> 0], capacity |-> 8, email |-> ""]}
  \cup {[manager |-> [defined |-> FALSE, value |-> 0], capacity |-> 8, email |-> "",
         utilization |-> u] : u \in {50, 150}}

NextUtilization ==
  \/ \E id \in ClusterIds, patch \in UtilizationPatches :
       ClusterUpdateStart("r1", id, patch)
  \/ ClusterUpdateCluster("r1")
  \/ \E user \in ClusterTokens, q \in {-2, 2, 1200} :
       /\ BagCardinality(production) <= MaxProdRows
       /\ ProdStart("r1", user, "plate", q, now)
  \/ ProdInsert("r1")
  \/ ProdSelectProduct("r1")
  \/ ProdUpdateStock("r1")
  \/ UtilReadCapacity("r1")
  \/ UtilReadToday("r1")
  \/ UtilWrite("r1")
  \/ Finish("r1")

SpecUtilization == InitProduction /\ [][NextUtilization]_vars

----------------------------------------------------------------------------
(* Listings: two clusters with records of each kind; users sign up or log in
   and list the cluster-scoped tables with the token they were given *)

MaterialA == [id |-> 11, cluster_id |-> ManagerA.cluster_id, quantity |-> 1]
MaterialB == [id |-> 12, cluster_id |-> ManagerB.cluster_id, quantity |-> 1]

AttendanceA ==
  [id |-> 13, cluster_id |-> ManagerA.cluster_id, employee_id |-> 0,
   status |-> "Present"]

AttendanceB ==
  [id |-> 14, cluster_id |-> ManagerB.cluster_id, employee_id |-> 0,
   status |-> "Absent"]

TwoClusters ==
  {[id |-> ManagerA.cluster_id, capacity |-> 8, utilization |-> 0,
    manager_id |-> ManagerA.id],
   [id |-> ManagerB.cluster_id, capacity |-> 8, utilization |-> 0,
    manager_id |-> ManagerB.id]}

InitListings ==
  /\ now = 0
  /\ users = {AdminUser, ManagerA, ManagerB}
  /\ clusters = TwoClusters
  /\ products = [p \in Products |-> [price |-> UnitPrice(p), stock |-> MaxStock]]
  /\ profiles = {}
  /\ orders = {}
  /\ order_items = {}
  /\ production =
       SetToBag({[cluster_id |-> m.cluster_id, product_id |-> "plate",
                  quantity |-> 1, date |-> 0] : m \in {ManagerA, ManagerB}})
  /\ materials = {MaterialA, MaterialB}
  /\ attendance = {AttendanceA, AttendanceB}
  /\ employees = {}
  /\ nextId = 20
  /\ req = [r \in Reqs |-> Idle]
  /\ session = NoResp
  /\ lastResp = NoResp

(* the tokens handed out so far and still held by their users *)
HeldTokens ==
  {req[r].token : r \in {q \in Reqs : req[q].kind \in {"signup", "login"}}}
    \ {NoToken}

NextListings ==
  \/ \E email \in {ManagerA.email, "c@greenverse.com"}, role \in SignupRoles :
       SignupStart("r1", email, "secret1", "Ann", role)
  \/ SignupCheckEmail("r1")
  \/ SignupInsert("r1")
  \/ \E email \in {AdminUser.email, ManagerA.email}, password \in LoginPasswords :
       LoginStart("r2", email, password)
  \/ LoginSelect("r2")
  \/ LoginIssue("r2")
  \/ \E token \in HeldTokens \cup {NoToken} :
       \/ ListProduction(token)
       \/ ListAttendance(token)
       \/ ListMaterials(token)

SpecListings == InitListings /\ [][NextListings]_vars

----------------------------------------------------------------------------
(* POST /api/attendance and POST /api/attendance/bulk (role cluster) *)

AttendanceColumns ==
  {"id", "cluster_id", "worker_name", "date", "status", "employee_id"}

AttendanceStatuses == {"Present", "Absent", "Leave"}

(* the columns of the table, attendance.cluster_id and attendance.employee_id
   (nullable) as foreign keys, NOT NULL on worker_name and date, and the
   CHECK on status *)
AttendanceInsertOk(row) ==
  /\ DOMAIN row \subseteq AttendanceColumns
  /\ \E c \in clusters : c.id = row.cluster_id
  /\ row.employee_id = 0 \/ \E e \in employees : e.id = row.employee_id
  /\ row.worker_name # ""
  /\ row.status \in AttendanceStatuses

AttendanceCreate(r, user, worker_name, shift, status, date) ==
  /\ req[r].pc = "idle"
  /\ LET this == [kind |-> "attendanceCreate", user |-> user, pre |-> attendance,
                  pc |-> "done", status |-> 0, error |-> ""]
         row == [id |-> nextId, cluster_id |-> user.cluster_id,
                 worker_name |-> worker_name, shift |-> shift,
                 status |-> status, date |-> date]
     IN IF worker_name = "" \/ shift = "" \/ status = ""
          THEN /\ req' = [req EXCEPT ![r] =
                    [this EXCEPT !.status = 400, !.error = "InvalidInput"]]
               /\ UNCHANGED <<attendance, nextId>>
          ELSE IF user.cluster_id = 0
          THEN /\ req' = [req EXCEPT ![r] =
                    [this EXCEPT !.status = 400, !.error = "NoCluster"]]
               /\ UNCHANGED <<attendance, nextId>>
          ELSE IF AttendanceInsertOk(row)
          THEN /\ attendance' = attendance \cup {row}
               /\ nextId' = nextId + 1
               /\ req' = [req EXCEPT ![r] = [this EXCEPT !.status = 201]]
          ELSE /\ req' = [req EXCEPT ![r] =
                    [this EXCEPT !.status = 500, !.error = "Internal"]]
               /\ UNCHANGED <<attendance, nextId>>
  /\ UNCHANGED <<users, clusters, products, profiles, orders, order_items,
                 production, materials, employees, now, session, lastResp>>

AttBulkStart(r, user, attendanceRecords) ==
  /\ req[r].pc = "idle"
  /\ LET invalid == Len(attendanceRecords) = 0 \/ user.cluster_id = 0 IN
       req' = [req EXCEPT ![r] =
         [kind |-> "attendanceBulk", user |-> user, records |-> attendanceRecords,
          pre |-> attendance, existing |-> {}, first |-> 0,
          pc |-> IF invalid THEN "done" ELSE "check",
          status |-> IF invalid THEN 400 ELSE 0,
          error |-> IF Len(attendanceRecords) = 0 THEN "InvalidInput"
                    ELSE IF user.cluster_id = 0 THEN "NoCluster" ELSE ""]]
  /\ UNCHANGED <<store, now, nextId, session, lastResp>>

(* .eq('cluster_id', cluster_id).eq('date', attendanceRecords[0].date) *)
AttendanceOn(cluster_id, date) ==
  {a \in attendance : a.cluster_id = cluster_id /\ a.date = date}

AttBulkCheck(r) ==
  /\ req[r].kind = "attendanceBulk" /\ req[r].pc = "check"
  /\ LET existingAttendance ==
           AttendanceOn(req[r].user.cluster_id, req[r].records[1].date)
     IN req' = [req EXCEPT ![r].existing = existingAttendance,
                           ![r].pc = IF existingAttendance # {} THEN "delete"
                                     ELSE "insert"]
  /\ UNCHANGED <<store, now, nextId, session, lastResp>>

AttendanceCleared_Kept(cluster_id, date) == attendance

AttendanceCleared(cluster_id, date) == attendance \ AttendanceOn(cluster_id, date)

AttBulkDelete(r) ==
  /\ req[r].kind = "attendanceBulk" /\ req[r].pc = "delete"
  /\ attendance' = AttendanceCleared(req[r].user.cluster_id, req[r].records[1].date)
  /\ req' = [req EXCEPT ![r].pc = "insert"]
  /\ UNCHANGED <<users, clusters, products, profiles, orders, order_items,
                 production, materials, employees, now, nextId, session, lastResp>>

(* attendanceRecords.map(...): one row per record, with the record's own date *)
AttendanceData(first, cluster_id, attendanceRecords) ==
  {[id |-> first + i - 1, cluster_id |-> cluster_id,
    employee_id |-> attendanceRecords[i].employee_id,
    worker_name |-> attendanceRecords[i].worker_name,
    status |-> attendanceRecords[i].status,
    date |-> attendanceRecords[i].date] : i \in 1..Len(attendanceRecords)}

AttBulkInsert(r) ==
  /\ req[r].kind = "attendanceBulk" /\ req[r].pc = "insert"
  /\ LET rows == AttendanceData(nextId, req[r].user.cluster_id, req[r].records) IN
       IF \A row \in rows : AttendanceInsertOk(row)
         THEN /\ attendance' = attendance \cup rows
              /\ nextId' = nextId + Len(req[r].records)
              /\ req' = [req EXCEPT ![r].first = nextId, ![r].pc = "done",
                                    ![r].status = 201]
         ELSE /\ UNCHANGED <<attendance, nextId>>
              /\ req' = [req EXCEPT ![r] = Respond(r, 500, "Internal")]
  /\ UNCHANGED <<users, clusters, products, profiles, orders, order_items,
                 production, materials, employees, now, session, lastResp>>

(* Attendance of one cluster: its manager submits single records and batches
   for two employees, one request at a time *)
EmployeeA1 == [id |-> 31, name |-> "Asha", cluster_id |-> ManagerA.cluster_id]
EmployeeA2 == [id |-> 32, name |-> "Bilal", cluster_id |-> ManagerA.cluster_id]

InitAttendance ==
  /\ now = 0
  /\ users = {AdminUser, ManagerA, ManagerB}
  /\ clusters = TwoClusters
  /\ products = [p \in Products |-> [price |-> UnitPrice(p), stock |-> MaxStock]]
  /\ profiles = {}
  /\ orders = {}
  /\ order_items = {}
  /\ production = EmptyBag
  /\ materials = {}
  /\ attendance = {}
  /\ employees = {EmployeeA1, EmployeeA2}
  /\ nextId = FirstAttendanceId
  /\ req = [r \in Reqs |-> Idle]
  /\ session = NoResp
  /\ lastResp = NoResp

(* both employees present on day 0, the first also on day 1, and the first
   on day 0 with a status the table refuses *)
AttendanceRecords ==
  {[employee_id |-> e.id, worker_name |-> e.name, status |-> "Present", date |-> 0] :
     e \in {EmployeeA1, EmployeeA2}}
  \cup {[employee_id |-> EmployeeA1.id, worker_name |-> EmployeeA1.name,
         status |-> "Present", date |-> 1],
        [employee_id |-> EmployeeA1.id, worker_name |-> EmployeeA1.name,
         status |-> "Late", date |-> 0]}

Batches ==
  UNION {[1..n -> AttendanceRecords] : n \in 0..MaxRecords}

AttendanceTokens ==
  {[id |-> ManagerA.id, role |-> ManagerA.role, cluster_id |-> ManagerA.cluster_id]}

NextAttendance ==
  \/ \E user \in AttendanceTokens, batch \in Batches :
       /\ nextId <= MaxAttId
       /\ AttBulkStart("r1", user, batch)
  \/ AttBulkCheck("r1")
  \/ AttBulkDelete("r1")
  \/ AttBulkInsert("r1")
  \/ \E user \in AttendanceTokens, e \in {EmployeeA1} :
       AttendanceCreate("r1", user, e.name, "Morning", "Present", 0)
  \/ Finish("r1")

SpecAttendance == InitAttendance /\ [][NextAttendance]_vars

----------------------------------------------------------------------------
(* POST, PUT and DELETE /api/employees (role admin); the employees_count of a
   cluster is a column the handlers maintain *)

SelectEmployee(id) == {e \in employees : e.id = id}

(* employees.cluster_id REFERENCES clusters(id) *)
EmployeesWriteOk(cluster_id) == \E c \in clusters : c.id = cluster_id

(* cluster?.employees_count || 0 *)
CurrentCount(cluster) == IF cluster = Null THEN 0 ELSE cluster.employees_count

WithCount(cluster_id, count) ==
  {IF c.id = cluster_id THEN [c EXCEPT !.employees_count = count] ELSE c :
     c \in clusters}

EmployeeCreateInsert(r, name, cluster_id) ==
  /\ req[r].pc = "idle"
  /\ LET this == [kind |-> "employeeCreate", cluster_id |-> cluster_id, id |-> 0,
                  count |-> 0, pc |-> "done", status |-> 0, error |-> ""]
         row == [id |-> nextId, name |-> name, cluster_id |-> cluster_id]
     IN IF name = "" \/ cluster_id = 0
          THEN /\ req' = [req EXCEPT ![r] =
                    [this EXCEPT !.status = 400, !.error = "InvalidInput"]]
               /\ UNCHANGED <<employees, nextId>>
          ELSE IF EmployeesWriteOk(cluster_id)
          THEN /\ employees' = employees \cup {row}
               /\ nextId' = nextId + 1
               /\ req' = [req EXCEPT ![r] = [this EXCEPT !.id = row.id, !.pc = "readCount"]]
          ELSE /\ req' = [req EXCEPT ![r] =
                    [this EXCEPT !.status = 500, !.error = "Internal"]]
               /\ UNCHANGED <<employees, nextId>>
  /\ UNCHANGED <<users, clusters, products, profiles, orders, order_items,
                 production, materials, attendance, now, session, lastResp>>

EmployeeCreateReadCount(r) ==
  /\ req[r].kind = "employeeCreate" /\ req[r].pc = "readCount"
  /\ req' = [req EXCEPT
       ![r].count = CurrentCount(Single(SelectCluster(req[r].cluster_id)).data),
       ![r].pc = "writeCount"]
  /\ UNCHANGED <<store, now, nextId, session, lastResp>>

EmployeeCreateWriteCount(r) ==
  /\ req[r].kind = "employeeCreate" /\ req[r].pc = "writeCount"
  /\ clusters' = WithCount(req[r].cluster_id, req[r].count + 1)
  /\ req' = [req EXCEPT ![r].pc = "done", ![r].status = 201]
  /\ UNCHANGED <<users, products, profiles, orders, order_items, production,
                 materials, attendance, employees, now, nextId, session, lastResp>>

(* PUT: cluster_id 0 stands for a body without cluster_id; the count of no
   cluster is touched *)
EmployeeUpdate(r, id, cluster_id) ==
  /\ req[r].pc = "idle"
  /\ LET this == [kind |-> "employeeUpdate", id |-> id, cluster_id |-> cluster_id,
                  pc |-> "done", status |-> 200, error |-> ""]
     IN IF SelectEmployee(id) # {} /\ (cluster_id = 0 \/ EmployeesWriteOk(cluster_id))
          THEN /\ employees' = {IF e.id = id /\ cluster_id # 0
                                  THEN [e EXCEPT !.cluster_id = cluster_id] ELSE e :
                                e \in employees}
               /\ req' = [req EXCEPT ![r] = this]
          ELSE /\ employees' = employees
               /\ req' = [req EXCEPT ![r] =
                    [this EXCEPT !.status = 500, !.error = "Internal"]]
  /\ UNCHANGED <<users, clusters, products, profiles, orders, order_items,
                 production, materials, attendance, now, nextId, session, lastResp>>

EmployeeDeleteRead(r, id) ==
  /\ req[r].pc = "idle"
  /\ LET employee == Single(SelectEmployee(id)).data IN
       req' = [req EXCEPT ![r] =
         [kind |-> "employeeDelete", id |-> id,
          cluster_id |-> IF employee = Null THEN 0 ELSE employee.cluster_id,
          count |-> 0, pc |-> "delete", status |-> 0, error |-> ""]]
  /\ UNCHANGED <<store, now, nextId, session, lastResp>>

(* attendance.employee_id is ON DELETE CASCADE *)
EmployeeDeleteRow(r) ==
  /\ req[r].kind = "employeeDelete" /\ req[r].pc = "delete"
  /\ employees' = {e \in employees : e.id # req[r].id}
  /\ attendance' = {a \in attendance : a.employee_id # req[r].id}
  /\ req' = [req EXCEPT ![r] =
       IF req[r].cluster_id # 0
         THEN [req[r] EXCEPT !.pc = "readCount"]
         ELSE [req[r] EXCEPT !.pc = "done", !.status = 200]]
  /\ UNCHANGED <<users, clusters, products, profiles, orders, order_items,
                 production, materials, now, nextId, session, lastResp>>

EmployeeDeleteReadCount(r) ==
  /\ req[r].kind = "employeeDelete" /\ req[r].pc = "readCount"
  /\ req' = [req EXCEPT
       ![r].count = CurrentCount(Single(SelectCluster(req[r].cluster_id)).data),
       ![r].pc = "writeCount"]
  /\ UNCHANGED <<store, now, nextId, session, lastResp>>

(* Math.max(0, currentCount - 1) *)
CountAfterDelete(currentCount) ==
  IF currentCount - 1 > 0 THEN currentCount - 1 ELSE 0

EmployeeDeleteWriteCount(r) ==
  /\ req[r].kind = "employeeDelete" /\ req[r].pc = "writeCount"
  /\ clusters' = WithCount(req[r].cluster_id, CountAfterDelete(req[r].count))
  /\ req' = [req EXCEPT ![r].pc = "done", ![r].status = 200]
  /\ UNCHANGED <<users, products, profiles, orders, order_items, production,
                 materials, attendance, employees, now, nextId, session, lastResp>>

(* Employees: the admin adds, moves and removes employees of two clusters,
   one request at a time; the first cluster starts with one employee *)
InitEmployees ==
  /\ now = 0
  /\ users = {AdminUser, ManagerA, ManagerB}
  /\ clusters = {[id |-> ManagerA.cluster_id, capacity |-> 8, utilization |-> 0,
                  manager_id |-> ManagerA.id, employees_count |-> 1],
                 [id |-> ManagerB.cluster_id, capacity |-> 8, utilization |-> 0,
                  manager_id |-> ManagerB.id, employees_count |-> 0]}
  /\ products = [p \in Products |-> [price |-> UnitPrice(p), stock |-> MaxStock]]
  /\ profiles = {}
  /\ orders = {}
  /\ order_items = {}
  /\ production = EmptyBag
  /\ materials = {}
  /\ attendance = {}
  /\ employees = {EmployeeA1}
  /\ nextId = FirstAttendanceId
  /\ req = [r \in Reqs |-> Idle]
  /\ session = NoResp
  /\ lastResp = NoResp

UnknownEmployee == 96

EmployeeIds == {e.id : e \in employees} \cup {UnknownEmployee}

NextEmployees ==
  \/ \E name \in {"", "Chen"}, c \in ClusterIds :
       /\ nextId <= MaxAttId
       /\ EmployeeCreateInsert("r1", name, c)
  \/ EmployeeCreateReadCount("r1")
  \/ EmployeeCreateWriteCount("r1")
  \/ \E id \in EmployeeIds, c \in ClusterIds \cup {0} : EmployeeUpdate("r1", id, c)
  \/ \E id \in EmployeeIds : EmployeeDeleteRead("r1", id)
  \/ EmployeeDeleteRow("r1")
  \/ EmployeeDeleteReadCount("r1")
  \/ EmployeeDeleteWriteCount("r1")
  \/ Finish("r1")

SpecEmployees == InitEmployees /\ [][NextEmployees]_vars

----------------------------------------------------------------------------
(* Materials: two managers and a cluster-role user without a cluster write
   materials, two requests interleaved *)

OrphanClusterUser ==
  [id |-> 8, email |-> "c@greenverse.com", password_hash |-> Hash("secret1"),
   role |-> "cluster", cluster_id |-> 0]

InitMaterials ==
  /\ now = 0
  /\ users = {AdminUser, ManagerA, ManagerB, OrphanClusterUser}
  /\ clusters = TwoClusters
  /\ products = [p \in Products |-> [price |-> UnitPrice(p), stock |-> MaxStock]]
  /\ profiles = {}
  /\ orders = {}
  /\ order_items = {}
  /\ production = EmptyBag
  /\ materials = {MaterialA, MaterialB}
  /\ attendance = {}
  /\ employees = {}
  /\ nextId = 20
  /\ req = [r \in Reqs |-> Idle]
  /\ session = NoResp
  /\ lastResp = NoResp

MaterialUsers ==
  {[id |-> u.id, role |-> u.role, cluster_id |-> u.cluster_id] :
     u \in {ManagerA, ManagerB, OrphanClusterUser}}

UnknownMaterial == 98

MaterialIds == {MaterialA.id, MaterialB.id, UnknownMaterial}

NextMaterials ==
  \E r \in Reqs :
    \/ \E user \in MaterialUsers, quantity \in {0, 3} :
         MaterialCreate(r, user, "clay", quantity)
    \/ \E user \in MaterialUsers, id \in MaterialIds :
         MaterialUpdateRead(r, user, id, 2)
    \/ MaterialUpdateWrite(r)
    \/ \E user \in MaterialUsers, id \in MaterialIds :
         MaterialDeleteRead(r, user, id)
    \/ MaterialDeleteWrite(r)

SpecMaterials == InitMaterials /\ [][NextMaterials]_vars

----------------------------------------------------------------------------
(* Order desk: two clients with one order each; clients and the admin read
   orders while the admin changes statuses and deletes orders *)

ClientB ==
  [id |-> 9, email |-> "b@greenverse.com", password_hash |-> Hash("secret1"),
   role |-> "client", cluster_id |-> 0]

PlacedOrders ==
  {OrderRow(21, ClientUser, "plate", 1, [price |-> UnitPrice("plate")]),
   CartOrderRow(22, ClientB,
                <<[product_id |-> "bowl", quantity |-> 1]>>, UnitPrice("bowl"))}

PlacedItems ==
  CartItemRows(22, <<[product_id |-> "bowl", quantity |-> 1,
                     unit_price |-> UnitPrice("bowl"),
                     total_price |-> UnitPrice("bowl")]>>)

InitOrderDesk ==
  /\ now = 0
  /\ users = {AdminUser, ClientUser, ClientB}
  /\ clusters = {}
  /\ products = [p \in Products |-> [price |-> UnitPrice(p), stock |-> MaxStock]]
  /\ profiles = {[user_id |-> ClientB.id, filled |-> ProfileFields]}
  /\ orders = PlacedOrders
  /\ order_items = PlacedItems
  /\ production = EmptyBag
  /\ materials = {}
  /\ attendance = {}
  /\ employees = {}
  /\ nextId = 30
  /\ req = [r \in Reqs |-> Idle]
  /\ session = NoResp
  /\ lastResp = NoResp

DeskUsers ==
  {[id |-> u.id, role |-> u.role] : u \in {AdminUser, ClientUser, ClientB}}

UnknownOrder == 97

OrderIds == {21, 22, UnknownOrder}

Statuses == {"", "Pending", "Delivered", "Returned"}

NextOrderDesk ==
  \/ \E user \in DeskUsers : OrdersListRead("r1", user)
  \/ OrdersListItems("r1")
  \/ \E user \in DeskUsers, id \in OrderIds : OrderGetRead("r2", user, id)
  \/ OrderGetItems("r2")
  \/ \E id \in OrderIds : DeleteOrder(id)

SpecOrderDesk == InitOrderDesk /\ [][NextOrderDesk]_vars

(* the admin alone: status updates and deletions *)
NextOrderStatus ==
  \/ \E id \in OrderIds, status \in Statuses : UpdateOrderStatus(id, status)
  \/ \E id \in OrderIds : DeleteOrder(id)

SpecOrderStatus == InitOrderDesk /\ [][NextOrderStatus]_vars

----------------------------------------------------------------------------
(* Claims about checkout *)

CartDone(r) == req[r].kind = "cart" /\ req[r].pc = "done"

ClientProfileComplete(r) ==
  \E p \in profiles : p.user_id = req[r].user.id /\ p.filled = ProfileFields

(* the cart's lines are valid and name distinct existing products *)
CartPlain(r) ==
  /\ Len(req[r].items) > 0
  /\ \A i \in 1..Len(req[r].items) :
       /\ req[r].items[i].product_id \in DOMAIN req[r].pre
       /\ req[r].items[i].quantity > 0
  /\ \A i, j \in 1..Len(req[r].items) :
       req[r].items[i].product_id = req[r].items[j].product_id => i = j

(* C1: with a complete profile, a cart order of quantity Q for a product with
   stock S (S read when the request arrives; each product on one line) succeeds
   when every Q <= S and leaves each stock at S - Q; when some Q > S it fails
   with InsufficientStock and every stock is as before. *)
C1_CartStockContract ==
  \A r \in Reqs :
    (CartDone(r) /\ ClientProfileComplete(r) /\ CartPlain(r)) =>
      LET items == req[r].items
          S(i) == req[r].pre[items[i].product_id].stock
      IN IF \A i \in 1..Len(items) : items[i].quantity <= S(i)
           THEN /\ req[r].status = 201
                /\ \A i \in 1..Len(items) :
                     products[items[i].product_id].stock = S(i) - items[i].quantity
           ELSE /\ req[r].status = 400
                /\ req[r].error = "InsufficientStock"
                /\ products = req[r].pre

C1_Witness ==
  \E r \in Reqs :
    /\ CartDone(r) /\ CartPlain(r) /\ req[r].status = 201
    /\ Len(req[r].items) = 2
    /\ \E i \in 1..2 : req[r].pre[req[r].items[i].product_id].stock = req[r].items[i].quantity

(* C2: no order, cart or single-product, in any interleaving of two requests,
   leaves a product with negative stock. *)
C2_StockNeverNegative == \A p \in DOMAIN products : products[p].stock >= 0

(* both requests took stock from the same product and both were accepted *)
C2_Witness ==
  /\ \A r \in Reqs : req[r].pc = "done" /\ req[r].status = 201
  /\ req["r1"].kind = "cart" /\ req["r2"].kind = "order"
  /\ req["r1"].items[1].product_id = req["r2"].product_id
  /\ req["r2"].quantity > 0
  /\ req["r1"].items[1].quantity + req["r2"].quantity > req["r1"].pre[req["r2"].product_id].stock

(* C3: a successful checkout of a cart with N lines has created one Order row
   and N OrderItem rows that reference it, and the order's amount is the sum
   of unit_price x quantity over those rows. *)
C3_OneOrderNItems ==
  \A r \in Reqs :
    (CartDone(r) /\ req[r].status = 201) =>
      LET N == Len(req[r].items)
          mine == {o \in orders : o.id = req[r].order}
          rows == {i \in order_items : i.order_id = req[r].order}
          row(n) == CHOOSE i \in rows : i.line = n
      IN /\ Cardinality(orders) = 1
         /\ Cardinality(mine) = 1
         /\ Cardinality(order_items) = N
         /\ Cardinality(rows) = N
         /\ \A n \in 1..N : \E i \in rows : i.line = n
         /\ \A o \in mine :
              o.amount = SumSeq([n \in 1..N |-> row(n).unit_price * row(n).quantity])

C3_Witness ==
  \E r \in Reqs :
    /\ CartDone(r) /\ req[r].status = 201 /\ Len(req[r].items) = 2
    /\ req[r].items[1].product_id # req[r].items[2].product_id
    /\ Cardinality(order_items) = 2

(* C4 as stated: with a missing or incomplete profile every checkout, the empty
   cart included, ends in ProfileIncomplete and writes nothing. *)
C4_Original ==
  \A r \in Reqs :
    (CartDone(r) /\ ~ClientProfileComplete(r)) =>
      /\ req[r].error = "ProfileIncomplete"
      /\ orders = {} /\ order_items = {} /\ products = req[r].pre

(* C4 amended: with a missing or incomplete profile every checkout of a
   non-empty cart, whether its lines are valid or not, ends in
   ProfileIncomplete (400) and writes no order, no order item and no stock. *)
C4_ProfileIncompleteNonEmpty ==
  \A r \in Reqs :
    (CartDone(r) /\ ~ClientProfileComplete(r) /\ Len(req[r].items) > 0) =>
      /\ req[r].status = 400
      /\ req[r].error = "ProfileIncomplete"
      /\ orders = {} /\ order_items = {} /\ products = req[r].pre

C4_Witness ==
  \E r \in Reqs :
    /\ CartDone(r) /\ req[r].error = "ProfileIncomplete"
    /\ \E p \in profiles : p.filled = ProfileFields \ {"address_line"}
    /\ Len(req[r].items) = 2
    /\ LineInvalid(req[r].items[1])

(* C10: GET /api/products/:id answers 404 when no product has that id. *)
C10_UnknownProductIs404 ==
  (lastResp.op = "getProduct" /\ lastResp.id \notin DOMAIN products) =>
    lastResp.status = 404

----------------------------------------------------------------------------
(* Claims about production *)

ProdDone(r) ==
  req[r].kind = "production" /\ req[r].pc = "done" /\ req[r].status = 201

(* C5: when a production insert of cluster C has completed, C's stored
   utilization u is the percentage of today's total T against the capacity
   (1000 when unset), rounded to the nearest integer and capped at 100:
   u = 100 when the rounded percentage reaches 100, in particular whenever
   T exceeds the capacity, and otherwise u - 1/2 <= 100 T / capacity < u + 1/2. *)
C5_UtilizationAfterInsert ==
  \A r \in Reqs : ProdDone(r) =>
    \A c \in clusters : c.id = req[r].user.cluster_id =>
      LET cap == IF c.capacity = 0 THEN 1000 ELSE c.capacity
          today == {x \in BagToSet(production) : x.cluster_id = c.id /\ x.date = now}
          T == BagQuantity([x \in today |-> production[x]])
          u == c.utilization
      IN /\ (T > cap => u = 100)
         /\ IF 200 * T + cap >= 200 * cap
              THEN u = 100
              ELSE 2 * cap * u - cap <= 200 * T /\ 200 * T < 2 * cap * u + cap

(* two inserts dated today have completed and today's total exceeds capacity *)
C5_Witness ==
  \E r \in Reqs :
    /\ ProdDone(r) /\ req[r].date = now /\ now = 1
    /\ \E c \in clusters :
         /\ c.id = req[r].user.cluster_id /\ c.capacity = 0 /\ c.utilization = 100
         /\ BagQuantity(TodayProduction(c.id, now)) > 1000
         /\ BagCardinality(TodayProduction(c.id, now)) = 2

----------------------------------------------------------------------------
(* Claims about accounts *)

SignupDone(r) == req[r].kind = "signup" /\ req[r].pc = "done"

EmailRegisteredAtArrival(r) == \E u \in req[r].pre : u.email = req[r].email

RefusedWithConflict(r) ==
  /\ req[r].status = 400 /\ req[r].error = "Conflict"
  /\ req[r].created = 0
  /\ req[r].pre \subseteq users

EmailsDistinct == \A u \in users, v \in users : u.email = v.email => u = v

(* C8 as stated: every signup whose email was registered when the request
   arrived ends with Conflict and has added no user, and no two user rows
   ever share an email. *)
C8_Original ==
  /\ \A r \in Reqs :
       (SignupDone(r) /\ EmailRegisteredAtArrival(r)) => RefusedWithConflict(r)
  /\ EmailsDistinct

(* C8: a signup that passes the field validation (email and password present,
   password of at least 6 characters) and whose email was registered when the
   request arrived ends with Conflict and has added no user; and at all
   times, under any interleaving of signups and cluster creations, no two
   user rows share an email. *)
C8_EmailUnique ==
  /\ \A r \in Reqs :
       (/\ SignupDone(r) /\ EmailRegisteredAtArrival(r)
        /\ req[r].password # "" /\ Len(req[r].password) >= 6)
         => RefusedWithConflict(r)
  /\ EmailsDistinct

(* a well-formed signup was refused with Conflict: its email belongs to the
   manager that a cluster creation had registered before it arrived *)
C8_Witness ==
  \E r \in Reqs :
    /\ SignupDone(r) /\ req[r].error = "Conflict"
    /\ EmailRegisteredAtArrival(r) /\ req[r].password = "secret1"
    /\ \E q \in Reqs \ {r} :
         /\ req[q].kind = "clusterCreate" /\ req[q].status = 201
         /\ \E u \in users : u.id = req[q].created /\ u.email = req[r].email

----------------------------------------------------------------------------
(* Claims about cluster administration *)

(* C6: when a cluster creation has succeeded there is a cluster row and a user
   with role cluster whose cluster_id is that cluster's id and who is the
   cluster's manager_id; and when a deletion of a cluster has completed, the
   cluster row and the user that was its manager are gone. *)
C6_CreateDeleteRoundTrip ==
  \A r \in Reqs :
    /\ (req[r].kind = "clusterCreate" /\ req[r].pc = "done" /\ req[r].status = 201)
         => \E c \in clusters, u \in users :
              /\ c.id = req[r].cluster /\ u.id = req[r].created
              /\ u.role = "cluster" /\ u.cluster_id = c.id /\ c.manager_id = u.id
    /\ (req[r].kind = "clusterDelete" /\ req[r].pc = "done")
         => /\ \A c \in clusters : c.id # req[r].id
            /\ \A u \in users : u.id # req[r].pre_manager

(* C7: every user with role cluster has a cluster_id that names an existing
   cluster. *)
C7_ClusterUserHasCluster ==
  \A u \in users : u.role = "cluster" =>
    u.cluster_id # 0 /\ \E c \in clusters : c.id = u.cluster_id

----------------------------------------------------------------------------
(* Claims about sessions *)

(* C9: the token of a successful login carries the id, role and cluster_id of
   the stored user row with the login's email, issued at the current day; and
   a token presented more than 7 days after it was issued is answered 401. *)
C9_TokenMatchesUserAndExpires ==
  /\ \A r \in Reqs :
       (req[r].kind = "login" /\ req[r].pc = "done" /\ req[r].status = 200)
         => \E u \in users :
              /\ u.email = req[r].email
              /\ req[r].token.id = u.id /\ req[r].token.role = u.role
              /\ req[r].token.cluster_id = u.cluster_id
              /\ req[r].token.iat = now
  /\ (/\ lastResp.op = "me" /\ lastResp.token # NoToken
      /\ lastResp.at - lastResp.token.iat > 7)
       => lastResp.status = 401

(* the manager logged in, and the token was presented 8 days later *)
C9_Witness ==
  /\ lastResp.op = "me" /\ lastResp.token # NoToken
  /\ lastResp.token.id = ManagerA.id
  /\ lastResp.token.cluster_id = ManagerA.cluster_id
  /\ lastResp.at - lastResp.token.iat = 8
  /\ lastResp.status = 401

----------------------------------------------------------------------------
(* Claims about cluster-scoped listings *)

Listing == lastResp.op \in {"listProduction", "listAttendance", "listMaterials"}

WholeTable ==
  IF lastResp.op = "listProduction" THEN BagToSet(production)
  ELSE IF lastResp.op = "listAttendance" THEN attendance
  ELSE materials

(* C11: in a listing of production, attendance or materials, a requester with
   role cluster receives only rows whose cluster_id is the requester's own
   cluster_id, and an admin receives every row of the table. *)
C11_ListingScopedToCluster ==
  (Listing /\ lastResp.status = 200) =>
    /\ lastResp.user.role = "cluster"
         => \A row \in lastResp.rows : row.cluster_id = lastResp.user.cluster_id
    /\ lastResp.user.role = "admin" => lastResp.rows = WholeTable

----------------------------------------------------------------------------
(* Claims about materials *)

MaterialWrite(r) == req[r].kind \in {"materialUpdate", "materialDelete"}

(* the material the request names, as it was when the request arrived *)
NamedMaterial(r) == {m \in req[r].pre : m.id = req[r].id}

(* a step of a write request on a material of another cluster leaves that
   material as it is *)
ForeignStepKeepsMaterial ==
  \A r \in Reqs : \A m \in materials :
    (/\ req'[r] # req[r]
     /\ req'[r].kind \in {"materialUpdate", "materialDelete"}
     /\ req'[r].id = m.id /\ m.cluster_id # req'[r].user.cluster_id)
      => m \in materials'

(* C12: an update or delete by a cluster user of a material whose cluster_id
   differs from the user's own ends with 403 Forbidden and no step of it
   changes the material; an update or delete that succeeds is on a material
   of the user's own cluster; and every material created carries its
   creator's cluster_id. *)
C12_MaterialsOwnClusterOnly ==
  /\ [](\A r \in Reqs :
          /\ (MaterialWrite(r) /\ req[r].pc = "done")
               => \A m \in NamedMaterial(r) :
                    /\ m.cluster_id # req[r].user.cluster_id
                         => req[r].status = 403 /\ req[r].error = "Forbidden"
                    /\ req[r].status = 200
                         => m.cluster_id = req[r].user.cluster_id
          /\ (req[r].kind = "materialCreate" /\ req[r].status = 201)
               => /\ req[r].user.cluster_id # 0
                  /\ \A m \in materials :
                       m.id = req[r].id => m.cluster_id = req[r].user.cluster_id)
  /\ [][ForeignStepKeepsMaterial]_vars

(* the manager of one cluster was refused on the other cluster's material,
   which is still stored, while its owner's update went through *)
C12_Witness ==
  \E r \in Reqs, q \in Reqs :
    /\ req[r].kind = "materialDelete" /\ req[r].status = 403
    /\ req[r].user.cluster_id = ManagerB.cluster_id /\ req[r].id = MaterialA.id
    /\ req[q].kind = "materialUpdate" /\ req[q].status = 200
    /\ req[q].user.cluster_id = ManagerA.cluster_id /\ req[q].id = MaterialA.id
    /\ \E m \in materials : m.id = MaterialA.id /\ m.quantity = 2

----------------------------------------------------------------------------
(* Claims about reading and administering orders *)

(* C13: the orders a client's listing returns all have the client's id as
   user_id, and a client's fetch of an order that belongs to another user
   ends with 403 Forbidden and returns no order. *)
C13_ClientSeesOwnOrdersOnly ==
  \A r \in Reqs :
    /\ (req[r].kind = "ordersList" /\ req[r].user.role = "client")
         => /\ \A o \in req[r].orders : o.user_id = req[r].user.id
            /\ \A x \in req[r].result : x.order.user_id = req[r].user.id
    /\ (req[r].kind = "orderGet" /\ req[r].pc = "done" /\ req[r].user.role = "client")
         => \A o \in req[r].pre :
              (o.id = req[r].id /\ o.user_id # req[r].user.id)
                => /\ req[r].status = 403 /\ req[r].error = "Forbidden"
                   /\ req[r].order = Null /\ req[r].result = Null

(* one client listed the orders and got only the own one, and was refused the
   other client's order *)
C13_Witness ==
  \E r \in Reqs, q \in Reqs :
    /\ req[r].kind = "ordersList" /\ req[r].pc = "done"
    /\ req[r].user.id = ClientUser.id /\ Cardinality(req[r].result) = 1
    /\ Cardinality(orders) = 2
    /\ req[q].kind = "orderGet" /\ req[q].user.id = ClientUser.id
    /\ req[q].id = 22 /\ req[q].status = 403

PatchStep == lastResp' # lastResp /\ lastResp'.op = "patchStatus"

(* C14: a status update with a non-empty status on an existing order is
   accepted whatever the order's current status is, sets that order's status
   to the supplied value, and changes no other field, no other order and no
   other table. *)
C14_StatusOverwrite ==
  [][(PatchStep /\ lastResp'.status # "" /\ SelectOrder(lastResp'.id) # {})
       => /\ lastResp'.http = 200
          /\ orders' = {IF o.id = lastResp'.id
                          THEN [o EXCEPT !.status = lastResp'.status]
                          ELSE o : o \in orders}
          /\ UNCHANGED <<users, clusters, products, profiles, order_items,
                         production, materials, attendance, employees>>]_vars

(* a Delivered order was set back to Pending *)
C14_Witness ==
  /\ lastResp.op = "patchStatus" /\ lastResp.http = 200
  /\ lastResp.before = "Delivered" /\ lastResp.status = "Pending"
  /\ \E o \in orders : o.id = lastResp.id /\ o.status = "Pending"

----------------------------------------------------------------------------
(* Claims about concurrent orders *)

(* the request has read the stock of its product and found it sufficient *)
PassedStockCheck(r) ==
  \/ req[r].kind = "cart" /\ Len(req[r].details) = 1
       /\ req[r].pc \in {"insertOrder", "insertItems", "updateStock", "done"}
  \/ req[r].kind = "order" /\ req[r].product # Null
       /\ req[r].pc \in {"insert", "update", "done"}

OrderedProduct(r) ==
  IF req[r].kind = "cart" THEN req[r].details[1].product_id ELSE req[r].product_id

OrderedQuantity(r) ==
  IF req[r].kind = "cart" THEN req[r].details[1].quantity ELSE req[r].quantity

StockSeen(r) ==
  IF req[r].kind = "cart" THEN req[r].details[1].current_stock
  ELSE req[r].product.stock

(* C15: when two orders for the same product have both passed the stock
   check on the same stock value S, that is before either wrote its
   decrement, neither is rejected afterwards; once both have finished both
   are accepted, both order rows are stored, and the stock is S minus the
   quantity of one of them only, so quantities adding up to more than S are
   sold. *)
C15_BothPassBothSucceed ==
  \A r \in Reqs, q \in Reqs :
    (/\ r # q /\ PassedStockCheck(r) /\ PassedStockCheck(q)
     /\ OrderedProduct(r) = OrderedProduct(q) /\ StockSeen(r) = StockSeen(q))
      => /\ req[r].status \in {0, 201}
         /\ (req[r].pc = "done" /\ req[q].pc = "done")
              => /\ req[r].status = 201 /\ req[q].status = 201
                 /\ \E o \in orders : o.id = req[r].order
                 /\ \E o \in orders : o.id = req[q].order
                 /\ req[r].order # req[q].order
                 /\ products[OrderedProduct(r)].stock
                      \in {StockSeen(r) - OrderedQuantity(r),
                           StockSeen(q) - OrderedQuantity(q)}

(* two checkouts of the same product were both accepted, and together they
   sold more than the stock either of them saw *)
C15_Witness ==
  /\ \A r \in Reqs : req[r].kind = "cart" /\ req[r].pc = "done" /\ req[r].status = 201
  /\ OrderedProduct("r1") = OrderedProduct("r2")
  /\ StockSeen("r1") = StockSeen("r2")
  /\ OrderedQuantity("r1") + OrderedQuantity("r2") > StockSeen("r1")
  /\ Cardinality(orders) = 2

----------------------------------------------------------------------------
(* Claims about concurrent production *)

(* u is the percentage of total against cap, rounded to the nearest integer
   and capped at 100 *)
IsPercentOf(u, total, cap) ==
  IF 200 * total + cap >= 200 * cap
    THEN u = 100
    ELSE 2 * cap * u - cap <= 200 * total /\ 200 * total < 2 * cap * u + cap

StoredUtilization(cluster_id) ==
  (CHOOSE c \in clusters : c.id = cluster_id).utilization

WritesUtilization(r) ==
  req[r].kind = "production" /\ req[r].pc = "writeUtilization" /\ req'[r].pc = "done"

(* C16: every utilization write of a production insert stores the percentage
   of the today-total that this request itself read, whatever rows exist by
   then; so after two concurrent inserts of one cluster have finished the
   stored utilization is the one computed by one of the two requests from
   its own reading. *)
C16_LastWriteWins ==
  /\ [][\A r \in Reqs : WritesUtilization(r) =>
          IsPercentOf(StoredUtilization(req[r].user.cluster_id)',
                      req[r].total, req[r].capacity)]_vars
  /\ []((\A r \in Reqs : ProdDone(r)) =>
          \E r \in Reqs :
            IsPercentOf(StoredUtilization(req[r].user.cluster_id),
                        req[r].total, req[r].capacity))

(* both inserts have finished and the stored utilization is not the
   percentage of today's rows: the request that wrote last had read the total
   before the other's row was inserted *)
C16_Witness ==
  /\ \A r \in Reqs : ProdDone(r)
  /\ LET c == CHOOSE x \in clusters : x.id = ManagerA.cluster_id
         T == BagQuantity(TodayProduction(c.id, now))
     IN /\ BagCardinality(TodayProduction(c.id, now)) = 2
        /\ ~IsPercentOf(c.utilization, T, DailyCapacity(c))
        /\ \E r \in Reqs : /\ req[r].total < T
                           /\ IsPercentOf(c.utilization, req[r].total, req[r].capacity)

----------------------------------------------------------------------------
(* Claims about failures in the middle of a handler *)

CartLineProductGone(r) ==
  \E i \in 1..Len(req[r].details) : req[r].details[i].product_id \notin DOMAIN products

(* C17: when a checkout has created its order row and the insert of the
   order items then fails (here: a product of the cart was deleted in
   between), the request ends with 500 Internal, the order row is still
   stored and has no items, and no stock has been changed. *)
C17_ItemFailureLeavesOrder ==
  \A r \in Reqs :
    (/\ req[r].kind = "cart" /\ req[r].order # 0 /\ req[r].pc # "insertItems"
     /\ CartLineProductGone(r))
      => /\ req[r].pc = "done" /\ req[r].status = 500 /\ req[r].error = "Internal"
         /\ \E o \in orders : o.id = req[r].order
         /\ \A i \in order_items : i.order_id # req[r].order
         /\ \A p \in DOMAIN products : products[p].stock = req[r].pre[p].stock

(* a two-line checkout failed at the items after its order row was stored *)
C17_Witness ==
  \E r \in Reqs :
    /\ req[r].kind = "cart" /\ req[r].pc = "done" /\ req[r].status = 500
    /\ req[r].order # 0 /\ Len(req[r].details) = 2
    /\ \E o \in orders : o.id = req[r].order /\ o.user_id = req[r].user.id
    /\ order_items = {}

(* C18: a cluster creation whose user insert failed after its cluster row was
   stored ends with 500, and then neither that cluster row nor a user of that
   cluster is stored, and the request has created no user. *)
C18_FailedCreationLeavesNothing ==
  \A r \in Reqs :
    (/\ req[r].kind = "clusterCreate" /\ req[r].cluster # 0
     /\ req[r].pc = "done" /\ req[r].status # 201)
      => /\ req[r].status = 500
         /\ \A c \in clusters : c.id # req[r].cluster
         /\ \A u \in users : u.cluster_id # req[r].cluster
         /\ req[r].created = 0

(* a creation was rolled back because the other request registered its email
   between the email check and the user insert *)
C18_Witness ==
  \E r \in Reqs :
    /\ req[r].kind = "clusterCreate" /\ req[r].pc = "done" /\ req[r].status = 500
    /\ req[r].cluster # 0
    /\ \A u \in req[r].pre : u.email # req[r].email
    /\ \E u \in users : u.email = req[r].email

----------------------------------------------------------------------------
(* Claims about the stock written by a production insert *)

ProdStep(r) == req[r].kind = "production" /\ req[r].pc # req'[r].pc

(* the whole number of units in a request quantity given in halves *)
UnitsOf(q) ==
  CHOOSE n \in (IF q >= 0 THEN 0 ELSE q) .. (IF q >= 0 THEN q ELSE 0) :
    IF q >= 0 THEN 2 * n <= q /\ q < 2 * n + 2 ELSE 2 * n - 2 < q /\ q <= 2 * n

(* C19: a production insert stores a record of Q units for product P (Q being
   the whole units of the quantity sent), changes no stock until its stock
   write, writes P's stock as the stock before plus exactly Q and leaves every
   other product alone, goes on from there to the utilization recomputation of
   the creating user's cluster, and answers 201 only from that recomputation. *)
C19_StockIncreasesByQuantity ==
  [][\A r \in Reqs : ProdStep(r) =>
       LET P == req[r].product_id
           Q == UnitsOf(req[r].quantity)
       IN /\ req[r].pc = "insert" /\ req'[r].pc # "done" =>
               /\ production' = production (+) SetToBag(
                    {[cluster_id |-> req[r].user.cluster_id, product_id |-> P,
                      quantity |-> Q, date |-> req[r].date]})
               /\ req'[r].pc = "selectProduct"
          /\ req[r].pc # "updateStock" => products' = products
          /\ req[r].pc = "updateStock" =>
               /\ products'[P].stock = products[P].stock + Q
               /\ \A p \in DOMAIN products \ {P} : products'[p] = products[p]
               /\ req'[r].pc = "readCapacity"
          /\ req[r].pc = "readCapacity" /\ req'[r].pc # "done" =>
               req'[r].capacity > 0 /\ req'[r].pc = "readToday"
          /\ req'[r].pc = "done" /\ req'[r].status = 201 =>
               req[r].pc \in {"readCapacity", "writeUtilization"}]_vars

(* an insert of 1.5 units has completed: one more unit in stock, a record of
   one unit stored, and the utilization of the cluster written *)
C19_Witness ==
  \E r \in Reqs :
    /\ ProdDone(r) /\ req[r].quantity = 3
    /\ products[req[r].product_id].stock = req[r].product.stock + 1
    /\ \E row \in BagToSet(production) :
         row.quantity = 1 /\ row.cluster_id = req[r].user.cluster_id
    /\ \E c \in clusters : c.id = req[r].user.cluster_id /\ c.utilization > 0

----------------------------------------------------------------------------
(* Claims about the utilization shown by the cluster views *)

(* the clusters a completed view reports, each with the row read and the
   utilization shown *)
Shown(r) ==
  IF req[r].kind = "clusterGet" /\ req[r].pc = "done" /\ req[r].status = 200
    THEN {[cluster |-> req[r].cluster, utilization |-> req[r].utilization]}
  ELSE IF req[r].kind = "clusterList" /\ req[r].pc = "done"
    THEN {[cluster |-> req[r].views[c].cluster,
           utilization |-> req[r].views[c].utilization] : c \in DOMAIN req[r].views}
  ELSE {}

DateTotal(sel, d) ==
  BagQuantity([row \in {x \in BagToSet(sel) : x.date = d} |-> sel[row]])

(* the total of the most recent date whose total is not zero, 0 without one *)
NonzeroRecentTotal(sel) ==
  LET dates == {d \in {x.date : x \in BagToSet(sel)} : DateTotal(sel, d) # 0} IN
    IF dates = {} THEN 0
    ELSE DateTotal(sel, CHOOSE d \in dates : \A e \in dates : d >= e)

(* C20: when a view of the clusters has completed and a cluster it shows has
   a total of zero today, the utilization shown for it is the percentage,
   rounded and capped at 100, of T against the capacity (1000 when unset),
   where T is the total of the most recent date with a nonzero total among
   the at most 10 most recent records of the cluster. *)
C20_FallbackToNonzeroDate ==
  \A r \in Reqs : \A shown \in Shown(r) :
    BagQuantity(TodayProduction(shown.cluster.id, now)) = 0 =>
      \E sel \in RecentProduction(shown.cluster.id) :
        shown.utilization =
          Min(Round(NonzeroRecentTotal(sel) * 100,
                    IF shown.cluster.capacity = 0 THEN 1000 ELSE shown.cluster.capacity),
              100)

----------------------------------------------------------------------------
(* Claims about attendance *)

BulkDone(r) ==
  req[r].kind = "attendanceBulk" /\ req[r].pc = "done" /\ req[r].status = 201

(* every record of the batch carries the date of the first *)
OneDay(r) ==
  \A i \in 1..Len(req[r].records) : req[r].records[i].date = req[r].records[1].date

WithoutId(rows) == {[a EXCEPT !.id = 0] : a \in rows}

(* C21: when a cluster user's bulk submission of one day's attendance has
   succeeded, the cluster's rows of that date are exactly one row per
   submitted record, the rows it had for that date before being gone, and
   every other row is as it was; so the rows left by submitting a batch do not
   depend on what was stored for the day, and a second submission of the same
   batch leaves what the first left. *)
C21_BulkReplacesTheDay ==
  \A r \in Reqs : BulkDone(r) /\ OneDay(r) =>
    LET C == req[r].user.cluster_id
        d == req[r].records[1].date
    IN /\ AttendanceOn(C, d) = AttendanceData(req[r].first, C, req[r].records)
       /\ Cardinality(AttendanceOn(C, d)) = Len(req[r].records)
       /\ attendance \ AttendanceOn(C, d)
            = {a \in req[r].pre : ~(a.cluster_id = C /\ a.date = d)}

(* the same two-record batch was submitted again: the rows of the day are new
   rows equal to the earlier ones, which are gone *)
C21_Witness ==
  \E r \in Reqs :
    /\ BulkDone(r) /\ OneDay(r) /\ Len(req[r].records) = 2
    /\ LET C == req[r].user.cluster_id
           d == req[r].records[1].date
           before == {a \in req[r].pre : a.cluster_id = C /\ a.date = d}
       IN /\ Cardinality(before) = 2
          /\ WithoutId(before) = WithoutId(AttendanceOn(C, d))
          /\ before \cap attendance = {}

(* C29: when no submission is in flight, a cluster holds at most one
   attendance row per employee and date. *)
C29_OneRecordPerEmployeePerDate ==
  (\A r \in Reqs : ~Busy(r)) =>
    \A a, b \in attendance :
      (a.cluster_id = b.cluster_id /\ a.employee_id = b.employee_id
         /\ a.worker_name = b.worker_name /\ a.date = b.date) => a = b

----------------------------------------------------------------------------
(* Further claims about the cart checkout *)

(* C22: the Order row written by a successful cart checkout has status
   Pending, the product of the first cart line as its product_id, and the sum
   of the quantities of all cart lines as its quantity. *)
C22_OrderRowOfCart ==
  \A r \in Reqs :
    (CartDone(r) /\ req[r].status = 201) =>
      /\ \E o \in orders : o.id = req[r].order
      /\ \A o \in orders : o.id = req[r].order =>
           /\ o.status = "Pending"
           /\ o.user_id = req[r].user.id
           /\ o.product_id = req[r].items[1].product_id
           /\ o.quantity =
                SumSeq([i \in 1..Len(req[r].items) |-> req[r].items[i].quantity])

(* a checkout of two lines for different products succeeded, and its order
   row names the first product with the quantity of both lines *)
C22_Witness ==
  \E r \in Reqs :
    /\ CartDone(r) /\ req[r].status = 201 /\ Len(req[r].items) = 2
    /\ req[r].items[1].product_id = "bowl" /\ req[r].items[2].product_id = "plate"
    /\ \E o \in orders :
         /\ o.id = req[r].order /\ o.product_id = "bowl"
         /\ o.quantity = req[r].items[1].quantity + req[r].items[2].quantity
         /\ o.quantity > req[r].items[1].quantity

----------------------------------------------------------------------------
(* Claims about the client profile *)

ProfileSaved(r) ==
  req[r].kind = "profileSave" /\ req[r].pc = "done" /\ req[r].status = 200

(* C23: when a profile save has succeeded the user has exactly one profile
   and all five address fields of it are populated, and a checkout of that
   user that reads the profile from then on is not refused with
   ProfileIncomplete; a save that omits one of the five fields ends with 400
   InvalidInput and the stored profiles are what they were. *)
C23_SavedProfileIsComplete ==
  /\ [](\A r \in Reqs :
          /\ ProfileSaved(r) =>
               /\ Cardinality(SelectProfile(req[r].user.id)) = 1
               /\ \A p \in SelectProfile(req[r].user.id) : p.filled = ProfileFields
          /\ (req[r].kind = "profileSave" /\ req[r].fields # ProfileFields) =>
               /\ req[r].pc = "done" /\ req[r].status = 400
               /\ req[r].error = "InvalidInput"
               /\ profiles = req[r].pre)
  /\ [][\A r, q \in Reqs :
          (/\ ProfileSaved(q)
           /\ req[r].kind = "cart" /\ req[r].user.id = req[q].user.id
           /\ req[r].pc = "profile" /\ req'[r].pc # "profile")
            => req'[r].pc = "validate" /\ req'[r].error # "ProfileIncomplete"]_vars

(* a client without a profile saved one, and the checkout that followed
   succeeded *)
C23_Witness ==
  /\ ProfileSaved("r1") /\ req["r1"].pre = {}
  /\ CartDone("r2") /\ req["r2"].status = 201
  /\ req["r2"].user.id = req["r1"].user.id

----------------------------------------------------------------------------
(* Claims about the stock of a product *)

Succeeded(r) == req[r].pc = "done" /\ req[r].status = 201

(* the units of product P that request r produced, and those it ordered *)
Produced(r, P) ==
  IF req[r].kind = "production" /\ req[r].product_id = P
    THEN UnitsOf(req[r].quantity) ELSE 0

Ordered(r, P) ==
  IF req[r].kind = "cart"
    THEN SumSeq([i \in 1..Len(req[r].items) |->
                   IF req[r].items[i].product_id = P
                     THEN req[r].items[i].quantity ELSE 0])
  ELSE IF req[r].kind = "order" /\ req[r].product_id = P THEN req[r].quantity
  ELSE 0

(* C24: when the orders and production inserts that were made have all
   completed successfully, each product's stock is its initial stock plus
   the units produced minus the units ordered. *)
C24_StockIsConserved ==
  (\A r \in Reqs : Succeeded(r)) =>
    \A P \in Products :
      products[P].stock =
        MaxStock + Produced("r1", P) + Produced("r2", P)
                 - Ordered("r1", P) - Ordered("r2", P)

(* C25: a cart checkout succeeds only if, for every product, the quantity its
   lines request in total is at most the product's stock, and the product's
   stock has then decreased by that total. *)
C25_RepeatedLinesAddUp ==
  \A r \in Reqs :
    (CartDone(r) /\ req[r].status = 201) =>
      \A P \in Products :
        /\ Ordered(r, P) <= req[r].pre[P].stock
        /\ products[P].stock = req[r].pre[P].stock - Ordered(r, P)

(* C26: a single-product order is accepted only with a positive quantity: the
   order row it creates has a positive quantity and amount, and the stock of
   its product is not above what it was when the request arrived. *)
C26_LegacyOrderIsPositive ==
  \A r \in Reqs :
    (req[r].kind = "order" /\ Succeeded(r)) =>
      /\ req[r].quantity > 0
      /\ \A o \in orders : o.id = req[r].order => o.quantity > 0 /\ o.amount > 0
      /\ products[req[r].product_id].stock <= req[r].pre[req[r].product_id].stock

(* a line the validation refuses: invalid product_id or quantity, a product
   that is not stored, or more than the product's stock *)
LineRefused(r, i) ==
  LET item == req[r].items[i] IN
    \/ item.product_id = NoId \/ item.quantity <= 0
    \/ item.product_id \notin DOMAIN req[r].pre
    \/ item.quantity > req[r].pre[item.product_id].stock

(* C27: a checkout with a complete profile and a line, at any position, that
   the validation refuses ends with 400 or 404 and leaves the orders, the
   order items and every product's stock as they were. *)
C27_RejectedCartWritesNothing ==
  \A r \in Reqs :
    (/\ CartDone(r) /\ ClientProfileComplete(r)
     /\ \E i \in 1..Len(req[r].items) : LineRefused(r, i))
      => /\ req[r].status \in {400, 404}
         /\ req[r].error \in {"InvalidInput", "NotFound", "InsufficientStock"}
         /\ orders = {} /\ order_items = {}
         /\ products = req[r].pre

(* a checkout whose first line was acceptable was rejected for the stock of
   its second line *)
C27_Witness ==
  \E r \in Reqs :
    /\ CartDone(r) /\ req[r].error = "InsufficientStock" /\ Len(req[r].items) = 2
    /\ ~LineRefused(r, 1) /\ LineRefused(r, 2)
    /\ req[r].items[1].product_id # req[r].items[2].product_id
    /\ orders = {} /\ products = req[r].pre

----------------------------------------------------------------------------
(* Claims about the stored utilization *)

(* C28: each cluster's stored utilization is an integer from 0 to 100. *)
C28_UtilizationIsAPercentage ==
  \A c \in clusters : c.utilization \in 0..100

----------------------------------------------------------------------------
(* Claims about employees *)

(* C30: when no request is in flight, each cluster's employees_count is the
   number of employee rows of that cluster. *)
C30_CountMatchesEmployees ==
  (\A r \in Reqs : ~Busy(r)) =>
    \A c \in clusters :
      c.employees_count = Cardinality({e \in employees : e.cluster_id = c.id})

====
